---- MODULE Spec2Model ----
(***************************************************************************)
(* Model of the Flow timetable PWA (src/app.js): the aggregate store, the  *)
(* rewards engine (updatePoints and sapling minting), the task handlers,   *)
(* the hydration handlers, the wake-up bounty and the occurrence filters.  *)
(*                                                                         *)
(* Representation.  A calendar date string "YYYY-MM-DD" is the number of   *)
(* the day since the epoch; an instant is a number of minutes since the    *)
(* epoch (UTC); an "HH:MM" string is the pair <<HH, MM>>.  The device's    *)
(* timezone is the offset tz (minutes east of UTC): toISOString() reads    *)
(* the UTC date of an instant, getHours()/getMinutes()/getDay()/setHours() *)
(* read and write its local fields.                                        *)
(***************************************************************************)
EXTENDS Integers, Sequences, FiniteSets, TLC

\* ---------------------------------------------------------------- bounds
MaxDay == 11
MaxPoints == 2100
MaxTotal == 2400
MaxPending == 2
MaxTasks == 1
MaxCups == 10
MaxGoalAwards == 2
MaxAhead == 1
MaxListed == 3

\* ------------------------------------------------------ program constants
DAILY_LIMIT == 200
SAPLING_EVERY == 1000
DEFAULT_GOAL == 8
BOUNTY_WINDOW == 60
MinutesPerDay == 1440
ClockStep == 1200
HalfHour == 30
EpochWeekday == 4

\* ------------------------------------------------------------- variables
VARIABLES
    now,               \* the device clock: minutes since the epoch, UTC
    tz,                \* the device timezone offset, minutes east of UTC
    generateIdDefined, \* whether the page defines the global generateId
    secureContext,     \* whether the page has crypto.subtle (it is served securely)
    timerState,        \* the focus countdown: timeLeft, totalTime, isActive, taskId
    timerInterval,     \* the handle of the last interval toggleTimer started
    timers,            \* the page's live intervals and timeouts, and the finish button
    store,             \* the in-memory aggregate state
    saved,             \* the blob in localStorage[DB_KEY]
    pending,           \* updatePoints calls suspended at their await
    pendingDeleteId,   \* the task the delete modal is about
    nextId,            \* the next value Date.now().toString() gives as a task id
    lastOp,            \* history: the handler that ran last, and its calls
    taskApplied,       \* history: task-sourced points applied per date
    highPoints,        \* history: the highest value store.points ever had
    goalAwards,        \* history: hydration-goal awards granted per date
    bountyAwards,      \* history: wake-up bounties granted per local date
    counted,           \* history: the seconds counted down since timeLeft was last set
    out                \* what the last evaluation put on the screen: the
                       \* clusters, the current-task status, the notifications

vars == <<now, tz, generateIdDefined, secureContext, timerState, timerInterval, timers, store, saved, pending, pendingDeleteId, nextId,
          lastOp, taskApplied, highPoints, goalAwards, bountyAwards, counted, out>>

NoDate == 0 - 1
NoId == 0

\* ------------------------------------------------------- clock utilities
Max(a, b) == IF a >= b THEN a ELSE b

Min(a, b) == IF a <= b THEN a ELSE b

\* new Date().toISOString().split('T')[0]
ToISODate(t) == t \div MinutesPerDay

\* the local calendar day an instant falls on
LocalDate(t) == (t + tz) \div MinutesPerDay

\* now.getHours() * 60 + now.getMinutes()
LocalMinutes(t) == (t + tz) % MinutesPerDay

\* the weekday index (0 = Sunday) of a calendar date
WeekdayOfDate(d) == (d + EpochWeekday) % 7

\* Date.prototype.getDay(): the weekday of the local date of the instant
GetDay(t) == WeekdayOfDate(LocalDate(t))

\* new Date("YYYY-MM-DD"): a date-only string is parsed as UTC midnight
DateParse(d) == d * MinutesPerDay

\* "HH:MM".split(':').map(Number), then h * 60 + m
TimeToMinutes(hm) == hm[1] * 60 + hm[2]

\* a.localeCompare(b) < 0 / a < b on zero-padded "HH:MM" strings
TimeLess(a, b) == a[1] < b[1] \/ (a[1] = b[1] /\ a[2] < b[2])

TimeLeq(a, b) == a = b \/ TimeLess(a, b)

\* ------------------------------------------------------- string helpers
RECURSIVE Digits(_)
\* Number.prototype.toString(): the decimal digits of n
Digits(n) == IF n < 10 THEN <<n>> ELSE Append(Digits(n \div 10), n % 10)

RECURSIVE PadStart(_, _, _)
\* String.prototype.padStart(len, ch)
PadStart(s, len, ch) == IF Len(s) >= len THEN s ELSE PadStart(<<ch>> \o s, len, ch)

\* (currentSaplings + i + 1).toString().padStart(4, '0')
SaplingId(k) == PadStart(Digits(k), 4, 0)

\* Array.prototype.includes on a sequence
Includes(seq, x) == \E i \in 1..Len(seq) : seq[i] = x

\* seq with its k-th element removed
RemoveAt(seq, k) == [i \in 1..(Len(seq) - 1) |-> IF i < k THEN seq[i] ELSE seq[i + 1]]

\* ------------------------------------------------------------ the store
\* DEFAULT_STATE, as loadStore returns it when nothing is persisted
DefaultStore(today) ==
    [tasks |-> <<>>,
     hydrationLogs |-> [d \in {} |-> 0],
     points |-> 0,
     selectedDate |-> today,
     lastBountyDate |-> NoDate,
     waterGoal |-> DEFAULT_GOAL,
     lastDrink |-> now,
     waterReminders |-> FALSE,
     notificationsEnabled |-> FALSE,
     wakeTime |-> <<7, 0>>,
     sleepTime |-> <<23, 0>>,
     saplings |-> <<>>,
     dailyPoints |-> [date |-> today, count |-> 0],
     totalPointsEarned |-> 0]

\* the handlers below are functions on a world: the store, the persisted
\* blob, the suspended calls and the log of updatePoints calls made so far
World == [store |-> store, saved |-> saved, pending |-> pending, calls |-> <<>>]

\* saveStore(): localStorage.setItem(DB_KEY, JSON.stringify(store)); the
\* renderUI() it ends with reads the store and changes none of it
saveStore(w) == [w EXCEPT !.saved = w.store]

\* one entry of the call log: the arguments of an updatePoints call, the
\* balance it found and what became of it
Call(amount, source, result, before) ==
    [amount |-> amount, source |-> source, result |-> result, before |-> before]

\* the clamp left out
ClampPoints_NoFloor(p) == p

\* the clamp of updatePoints: if (store.user.points < 0) store.user.points = 0
ClampPoints(p) == IF p < 0 THEN 0 ELSE p

\* the cap applied to the awards that are not task-sourced
CapReached_WrongSource(amount, source, count) ==
    amount > 0 /\ count >= DAILY_LIMIT /\ source # "task"

\* the cap applied whatever the source
CapReached_AnySource(amount, source, count) == amount > 0 /\ count >= DAILY_LIMIT

\* whether updatePoints rejects the award because of the daily cap
CapReached(amount, source, count) ==
    amount > 0 /\ count >= DAILY_LIMIT /\ source = "task"

\* the rollover moving the date on and keeping yesterday's count
DailyReset_KeepsCount(dailyPoints, today) == [date |-> today, count |-> dailyPoints.count]

\* the daily reset check: if (dailyPoints.date !== today) dailyPoints =
\* { date: today, count: 0 }
DailyReset(dailyPoints, today) ==
    IF dailyPoints.date # today THEN [date |-> today, count |-> 0] ELSE dailyPoints

\* the lifetime counter following penalties down
AddEarned_Signed(total, amount) == total + amount

\* if (amount > 0) store.rewards.totalPointsEarned += amount
AddEarned(total, amount) == IF amount > 0 THEN total + amount ELSE total

\* updatePoints up to its first await (or to its end when nothing is minted)
UpdatePoints(w, amount, source) ==
    LET today == ToISODate(now)
        s0 == w.store
        dp == DailyReset(s0.dailyPoints, today)
        s1 == [s0 EXCEPT !.dailyPoints = dp]
    IN  IF CapReached(amount, source, dp.count)
        THEN [w EXCEPT !.store = s1,
                       !.calls = Append(@, Call(amount, source, "rejected", s0.points))]
        ELSE
          LET p1 == ClampPoints(s1.points + amount)
              s2 == [s1 EXCEPT !.points = p1,
                               !.dailyPoints.count = IF amount > 0 THEN @ + amount ELSE @,
                               !.totalPointsEarned = AddEarned(@, amount)]
              currentSaplings == Len(s2.saplings)
              calculatedSaplings == p1 \div SAPLING_EVERY
          IN  IF calculatedSaplings > currentSaplings
              THEN IF generateIdDefined
                   THEN [w EXCEPT !.store = s2,
                                  !.pending = Append(@, [currentSaplings |-> currentSaplings,
                                                         newSaplingsCount |-> calculatedSaplings - currentSaplings,
                                                         i |-> 0,
                                                         today |-> today]),
                                  !.calls = Append(@, Call(amount, source, "minting", s0.points))]
                   ELSE [w EXCEPT !.store = s2,
                                  !.calls = Append(@, Call(amount, source, "threw", s0.points))]
              ELSE saveStore([w EXCEPT !.store = s2,
                                       !.calls = Append(@, Call(amount, source, "applied", s0.points))])

VerificationCode_NoMarker(id, dateStr) == [id |-> id, date |-> dateStr, sig |-> "hmac"]

\* generateVerificationCode: `${id}|${dateStr}|` and eight hex digits of the
\* HMAC, or the marker ERR when importKey or sign throws (no crypto.subtle)
VerificationCode(id, dateStr) ==
    [id |-> id, date |-> dateStr, sig |-> IF secureContext THEN "hmac" ELSE "ERR"]

\* what generateId() returned where the page defines it: an id of its own
\* making, which is no zero-padded sapling number
GeneratedId == <<"generated">>

\* the continuation of updatePoints after `await generateVerificationCode`:
\* push the sapling, then either loop to the next await or save and finish
ResumeMint(w, k) ==
    LET p == w.pending[k]
        sapling == [id |-> SaplingId(p.currentSaplings + p.i + 1),
                    date |-> now,
                    code |-> VerificationCode(GeneratedId, p.today),
                    claimed |-> FALSE]
        s1 == [w.store EXCEPT !.saplings = Append(@, sapling)]
    IN  IF p.i + 1 < p.newSaplingsCount
        THEN [w EXCEPT !.store = s1, !.pending[k].i = p.i + 1]
        ELSE saveStore([w EXCEPT !.store = s1, !.pending = RemoveAt(w.pending, k)])

\* what an action leaves behind
Commit(w, op, arg) ==
    /\ store' = w.store
    /\ saved' = w.saved
    /\ pending' = w.pending
    /\ lastOp' = [op |-> op, arg |-> arg, calls |-> w.calls]
    /\ highPoints' = Max(highPoints, w.store.points)

\* ------------------------------------------------------ rewards engine
Amounts == {0 - 900, 300, 2100}

Sources == {"task", "generic"}

\* the points a call adds to the lifetime counter
Earned(amount) == IF amount > 0 THEN amount ELSE 0

\* a direct call updatePoints(amount, source)
CallUpdatePoints(amount, source) ==
    /\ store.points + amount <= MaxPoints
    /\ store.totalPointsEarned + Earned(amount) <= MaxTotal
    /\ LET w == UpdatePoints(World, amount, source)
           today == ToISODate(now)
           before == IF taskApplied.date = today THEN taskApplied.sum ELSE 0
           res == w.calls[1].result
       IN  /\ Len(w.pending) <= MaxPending
           /\ Commit(w, "updatePoints", amount)
           /\ taskApplied' = IF source = "task" /\ amount > 0 /\ res # "rejected"
                             THEN [date |-> today, sum |-> before + amount]
                             ELSE [date |-> today, sum |-> before]
    /\ UNCHANGED <<now, tz, generateIdDefined, secureContext, timerState, timerInterval, timers, out, pendingDeleteId, nextId, goalAwards, bountyAwards, counted>>

\* the promise a suspended updatePoints call awaits settles
Resume(k) ==
    /\ k \in 1..Len(pending)
    /\ LET w == ResumeMint(World, k)
       IN  Commit(w, IF Len(w.pending) < Len(pending) THEN "mintDone" ELSE "mintNext", k)
    /\ UNCHANGED <<now, tz, generateIdDefined, secureContext, timerState, timerInterval, timers, out, pendingDeleteId, nextId, taskApplied, goalAwards, bountyAwards, counted>>

\* time passes
AdvanceClock(dt) ==
    /\ ToISODate(now + dt) <= MaxDay
    /\ now' = now + dt
    /\ lastOp' = [op |-> "clock", arg |-> dt, calls |-> <<>>]
    /\ UNCHANGED <<tz, generateIdDefined, secureContext, timerState, timerInterval, timers, out, store, saved, pending, pendingDeleteId, nextId,
                   taskApplied, highPoints, goalAwards, bountyAwards, counted>>

StartDay == 10

TZOffsets == {0 - 300, 0, 330}

\* nothing is on the screen yet
NoOutput == [kind |-> "none"]

\* the focus countdown scaled to seconds that can be enumerated: the 1500 s
\* of timerState stand at FocusSeconds
FocusSeconds == 3

\* the handles setInterval may hand out before the bound stops new starts
MaxHandles == 3
MaxMealIds == 4

\* timerInterval = null
NoHandle == 0

\* timerState and timerInterval as the script declares them; no interval or
\* timeout is registered, and the finish button is enabled or not
InitFocus(enabled) ==
    /\ timerState = [timeLeft |-> FocusSeconds, totalTime |-> FocusSeconds,
                     isActive |-> FALSE, taskId |-> NoId]
    /\ timerInterval = NoHandle
    /\ timers = [live |-> {}, issued |-> 0, timeouts |-> 0, finishEnabled |-> enabled]

\* the module-level state next to the store, and the histories
InitHistories ==
    /\ pending = <<>>
    /\ pendingDeleteId = NoId
    /\ lastOp = [op |-> "init", arg |-> 0, calls |-> <<>>]
    /\ taskApplied = [date |-> ToISODate(now), sum |-> 0]
    /\ highPoints = 0
    /\ goalAwards = [date |-> ToISODate(now), n |-> 0]
    /\ bountyAwards = [date |-> LocalDate(now), n |-> 0]
    /\ counted = 0
    /\ out = NoOutput

InitRest ==
    /\ InitFocus(FALSE)
    /\ InitHistories

InitCommon ==
    /\ store = DefaultStore(ToISODate(now))
    /\ saved = store
    /\ nextId = 1
    /\ InitRest

InitRewards ==
    /\ now = StartDay * MinutesPerDay
    /\ tz = 0
    /\ generateIdDefined \in BOOLEAN
    /\ secureContext = TRUE
    /\ InitCommon

NextRewards ==
    \/ \E amount \in Amounts, source \in Sources : CallUpdatePoints(amount, source)
    \/ \E k \in 1..MaxPending : Resume(k)
    \/ AdvanceClock(MinutesPerDay)

SpecRewards == InitRewards /\ [][NextRewards]_vars

\* the rewards engine on a page that defines generateId, served with or
\* without crypto.subtle
InitMint ==
    /\ now = StartDay * MinutesPerDay
    /\ tz = 0
    /\ generateIdDefined = TRUE
    /\ secureContext \in BOOLEAN
    /\ InitCommon

SpecMint == InitMint /\ [][NextRewards]_vars

\* ------------------------------------------------- occurrence resolution
\* the recurrence test every resolver repeats, on the date string and the
\* weekday index that resolver computed
RuleHolds(t, dateStr, dayIdx) ==
    IF t.recurrence = "none" THEN t.date = dateStr
    ELSE IF t.recurrence = "daily" THEN TRUE
    ELSE IF t.recurrence = "weekdays" THEN dayIdx \in t.days
    ELSE FALSE

\* task.deletedDates && task.deletedDates.includes(dateStr)
IsDeletedOn(t, dateStr) == t.hasDeletedDates /\ Includes(t.deletedDates, dateStr)

\* renderUI: selectedDay = new Date(store.user.selectedDate).getDay()
SelectedDay(sel) == GetDay(DateParse(sel))

\* renderUI: the filter that builds filteredTasks for the selected date
TimelineFilter(t, sel) == RuleHolds(t, sel, SelectedDay(sel))

\* renderUI: the tasks that reach a cluster for the selected date
TimelineOccurrence(t, sel) == TimelineFilter(t, sel) /\ ~IsDeletedOn(t, sel)

\* updateCurrentTask: the filter that builds todayTasks at instant i
TodayFilter(t, i) ==
    /\ ~IsDeletedOn(t, ToISODate(i))
    /\ RuleHolds(t, ToISODate(i), GetDay(i))

\* `${String(now.getHours()).padStart(2,'0')}:${String(now.getMinutes()).padStart(2,'0')}`
CurrentTime(i) == <<LocalMinutes(i) \div 60, LocalMinutes(i) % 60>>

\* checkNotifications: the filter that builds tasksStarting at instant i
NotifyFilter(t, i) ==
    /\ ~IsDeletedOn(t, ToISODate(i))
    /\ \/ t.startTime = CurrentTime(i)
       \/ TimeToMinutes(t.startTime) - LocalMinutes(i) = 5
    /\ RuleHolds(t, ToISODate(i), GetDay(i))

\* §4.1 occursOn: the recurrence rule on a calendar date and its weekday
OccursOn(t, d) ==
    \/ t.recurrence = "none" /\ t.date = d
    \/ t.recurrence = "daily"
    \/ t.recurrence = "weekdays" /\ WeekdayOfDate(d) \in t.days

\* ---------------------------------------------------------- task handlers
\* find taking the first task whatever its id
FindTask_First(s, id) == IF Len(s.tasks) > 0 THEN 1 ELSE 0

\* store.tasks.find(t => t.id === id): its index, 0 when there is none
FindTask(s, id) ==
    IF \E k \in 1..Len(s.tasks) : s.tasks[k].id = id
    THEN CHOOSE k \in 1..Len(s.tasks) :
             s.tasks[k].id = id /\ \A j \in 1..(k - 1) : s.tasks[j].id # id
    ELSE 0

\* store.tasks.filter(t => t.id !== id)
RECURSIVE FilterOutId(_, _)
FilterOutId(tasks, id) ==
    IF tasks = <<>> THEN <<>>
    ELSE IF Head(tasks).id = id THEN FilterOutId(Tail(tasks), id)
    ELSE <<Head(tasks)>> \o FilterOutId(Tail(tasks), id)

\* the editor-form submit handler in task mode (title and startTime given)
submitTask(w, startTime, endTime, recurrence, selectedDays) ==
    LET newTask == [id |-> nextId,
                    startTime |-> startTime,
                    endTime |-> endTime,
                    completed |-> FALSE,
                    recurrence |-> recurrence,
                    days |-> IF recurrence = "weekdays" THEN selectedDays
                             ELSE IF recurrence = "daily" THEN 0..6 ELSE {},
                    date |-> IF recurrence = "none" THEN w.store.selectedDate ELSE NoDate,
                    hasDeletedDates |-> FALSE,
                    deletedDates |-> <<>>]
    IN  saveStore([w EXCEPT !.store.tasks = Append(@, newTask)])

\* window.toggleTask
toggleTask(w, id) ==
    LET k == FindTask(w.store, id)
    IN  IF k = 0 THEN w
        ELSE LET w1 == [w EXCEPT !.store.tasks[k].completed = ~@]
                 w2 == IF w1.store.tasks[k].completed
                       THEN w1
                       ELSE UpdatePoints(w1, 0 - 10, "generic")
             IN  saveStore(w2)

\* confirmDelete pushing today's date instead of the selected one
confirmDelete_PushToday(w, id, scope) ==
    LET k == FindTask(w.store, id)
    IN  IF k = 0 THEN w
        ELSE IF w.store.tasks[k].recurrence = "none" \/ scope = "all"
        THEN saveStore([w EXCEPT !.store.tasks = FilterOutId(@, id)])
        ELSE saveStore([w EXCEPT !.store.tasks[k].hasDeletedDates = TRUE,
                                 !.store.tasks[k].deletedDates = Append(@, ToISODate(now))])

\* confirmDelete deciding on the scope alone
confirmDelete_ScopeOnly(w, id, scope) ==
    LET k == FindTask(w.store, id)
    IN  IF k = 0 THEN w
        ELSE IF scope = "all"
        THEN saveStore([w EXCEPT !.store.tasks = FilterOutId(@, id)])
        ELSE saveStore([w EXCEPT !.store.tasks[k].hasDeletedDates = TRUE,
                                 !.store.tasks[k].deletedDates = Append(@, w.store.selectedDate)])

\* confirmDelete, for the pending id and the checked delete-scope radio
confirmDelete(w, id, scope) ==
    LET k == FindTask(w.store, id)
    IN  IF k = 0 THEN w
        ELSE IF w.store.tasks[k].recurrence = "none" \/ scope = "all"
        THEN saveStore([w EXCEPT !.store.tasks = FilterOutId(@, id)])
        ELSE saveStore([w EXCEPT !.store.tasks[k].hasDeletedDates = TRUE,
                                 !.store.tasks[k].deletedDates = Append(@, w.store.selectedDate)])

TaskSlots == {<<<<9, 0>>, <<10, 0>>>>}

Recurrences == {"none", "daily", "weekdays"}

DayChoices == {{0}, {1, 3, 5}}

\* the task ids the timeline shows a card for
ShownIds == {store.tasks[k].id : k \in {j \in 1..Len(store.tasks) :
                 TimelineOccurrence(store.tasks[j], store.selectedDate)}}

UnchangedHistory == UNCHANGED <<taskApplied, goalAwards, bountyAwards, counted>>

SubmitTask(slot, recurrence, selectedDays) ==
    /\ nextId <= MaxTasks
    /\ recurrence = "weekdays" \/ selectedDays = {}
    /\ Commit(submitTask(World, slot[1], slot[2], recurrence, selectedDays), "submitTask", nextId)
    /\ nextId' = nextId + 1
    /\ UNCHANGED <<now, tz, generateIdDefined, secureContext, timerState, timerInterval, timers, out, pendingDeleteId>>
    /\ UnchangedHistory

\* a click on the check button of a card the timeline shows
ToggleTask(id) ==
    /\ id \in ShownIds
    /\ Commit(toggleTask(World, id), "toggleTask", id)
    /\ UNCHANGED <<now, tz, generateIdDefined, secureContext, timerState, timerInterval, timers, out, pendingDeleteId, nextId>>
    /\ UnchangedHistory

\* window.openDeleteModal, from the trash button of a card the timeline shows
OpenDeleteModal(id) ==
    /\ id \in ShownIds
    /\ pendingDeleteId = NoId
    /\ pendingDeleteId' = id
    /\ lastOp' = [op |-> "openDeleteModal", arg |-> id, calls |-> <<>>]
    /\ UNCHANGED <<now, tz, generateIdDefined, secureContext, timerState, timerInterval, timers, out, store, saved, pending, nextId, highPoints>>
    /\ UnchangedHistory

\* the delete-confirm-btn click handler
ConfirmDelete(scope) ==
    /\ pendingDeleteId # NoId
    /\ LET w == confirmDelete(World, pendingDeleteId, scope)
           k == FindTask(store, pendingDeleteId)
       IN  Commit(w,
                  IF k = 0 THEN "confirmDeleteMissing"
                  ELSE IF Len(w.store.tasks) < Len(store.tasks) THEN "confirmDeleteAll"
                  ELSE "confirmDeleteOne",
                  pendingDeleteId)
    /\ pendingDeleteId' = NoId
    /\ UNCHANGED <<now, tz, generateIdDefined, secureContext, timerState, timerInterval, timers, out, nextId>>
    /\ UnchangedHistory

\* the delete-cancel-btn click handler
CancelDelete ==
    /\ pendingDeleteId # NoId
    /\ pendingDeleteId' = NoId
    /\ lastOp' = [op |-> "cancelDelete", arg |-> pendingDeleteId, calls |-> <<>>]
    /\ UNCHANGED <<now, tz, generateIdDefined, secureContext, timerState, timerInterval, timers, out, store, saved, pending, nextId, highPoints>>
    /\ UnchangedHistory

\* a click on the i-th day button of the weekly scroller
SelectDate(i) ==
    /\ pendingDeleteId = NoId
    /\ ToISODate(now) + i <= MaxDay
    /\ Commit(saveStore([World EXCEPT !.store.selectedDate = ToISODate(now + i * MinutesPerDay)]),
              "selectDate", i)
    /\ UNCHANGED <<now, tz, generateIdDefined, secureContext, timerState, timerInterval, timers, out, pendingDeleteId, nextId>>
    /\ UnchangedHistory

InitTasks ==
    /\ now = StartDay * MinutesPerDay
    /\ tz \in TZOffsets
    /\ generateIdDefined = FALSE
    /\ secureContext = TRUE
    /\ InitCommon

NextTasks ==
    \/ \E slot \in TaskSlots, r \in Recurrences, ds \in DayChoices \cup {{}} : SubmitTask(slot, r, ds)
    \/ \E id \in 1..MaxTasks : ToggleTask(id)
    \/ \E id \in 1..MaxTasks : OpenDeleteModal(id)
    \/ \E scope \in {"all", "this"} : ConfirmDelete(scope)
    \/ CancelDelete
    \/ \E i \in 0..MaxAhead : SelectDate(i)
    \/ AdvanceClock(ClockStep)

SpecTasks == InitTasks /\ [][NextTasks]_vars

\* the ids a caller of the window functions may pass: those the editor can
\* give a task, and one it never gives
CallerIds == 1..(MaxTasks + 1)

\* window.toggleTask(e, id) called with any id
CallToggleTask(id) ==
    /\ Commit(toggleTask(World, id), "toggleTask", id)
    /\ UNCHANGED <<now, tz, generateIdDefined, secureContext, timerState, timerInterval, timers, out, pendingDeleteId, nextId>>
    /\ UnchangedHistory

\* window.deleteTask(id): openDeleteModal(null, id) called with the id of a
\* card on the timeline or with an id no task has; the id is kept in
\* pendingDeleteId either way.  Tasks hidden on the selected date are left
\* out, so that deletedDates stays bounded.
CallDeleteTask(id) ==
    /\ id \in ShownIds \/ FindTask(store, id) = 0
    /\ pendingDeleteId' = id
    /\ lastOp' = [op |-> "openDeleteModal", arg |-> id, calls |-> <<>>]
    /\ UNCHANGED <<now, tz, generateIdDefined, secureContext, timerState, timerInterval, timers, out, store, saved, pending, nextId, highPoints>>
    /\ UnchangedHistory

InitGlobals ==
    /\ now = StartDay * MinutesPerDay
    /\ tz = 0
    /\ generateIdDefined = FALSE
    /\ secureContext = TRUE
    /\ InitCommon

\* the task handlers reached through the window functions
NextGlobals ==
    \/ \E slot \in TaskSlots, r \in Recurrences, ds \in DayChoices \cup {{}} : SubmitTask(slot, r, ds)
    \/ \E id \in CallerIds : CallToggleTask(id)
    \/ \E id \in CallerIds : CallDeleteTask(id)
    \/ \E scope \in {"all", "this"} : ConfirmDelete(scope)
    \/ CancelDelete
    \/ \E i \in 0..MaxAhead : SelectDate(i)

SpecGlobals == InitGlobals /\ [][NextGlobals]_vars

\* ------------------------------------------------------------ hydration
\* !store.hydrationLogs[d]: no entry for the date, or an entry of 0
HydrationFalsy(s, d) == d \notin DOMAIN s.hydrationLogs \/ s.hydrationLogs[d] = 0

\* store.hydrationLogs[d] = v
SetHydration(s, d, v) ==
    [s EXCEPT !.hydrationLogs =
        [x \in (DOMAIN s.hydrationLogs) \cup {d} |-> IF x = d THEN v ELSE s.hydrationLogs[x]]]

\* store.hydrationLogs[d] || 0
HydrationOf(s, d) == IF d \in DOMAIN s.hydrationLogs THEN s.hydrationLogs[d] ELSE 0

\* the test that grants the hydration-goal award after an increment
GoalReached(count, goal) == count = goal

\* one listener of the water-add-btn click
waterAdd(w) ==
    LET today == ToISODate(now)
        s1 == IF HydrationFalsy(w.store, today) THEN SetHydration(w.store, today, 0) ELSE w.store
        s2 == [SetHydration(s1, today, s1.hydrationLogs[today] + 1) EXCEPT !.lastDrink = now]
        w2 == [w EXCEPT !.store = s2]
    IN  saveStore(IF GoalReached(s2.hydrationLogs[today], s2.waterGoal)
                  THEN UpdatePoints(w2, 20, "generic")
                  ELSE w2)

\* one listener of the water-remove-btn click
waterRemove(w) ==
    LET today == ToISODate(now)
    IN  IF ~HydrationFalsy(w.store, today) /\ w.store.hydrationLogs[today] > 0
        THEN saveStore([w EXCEPT !.store = SetHydration(w.store, today, w.store.hydrationLogs[today] - 1)])
        ELSE w

\* modifyWater without the return at a count of zero
modifyWater_NoFloor(w, amount) ==
    LET today == ToISODate(now)
        s1 == IF HydrationFalsy(w.store, today) THEN SetHydration(w.store, today, 0) ELSE w.store
        s2 == [SetHydration(s1, today, s1.hydrationLogs[today] + amount) EXCEPT !.lastDrink = now]
        w2 == [w EXCEPT !.store = s2]
    IN  IF w.store.selectedDate # today THEN w
        ELSE saveStore(IF amount > 0 /\ GoalReached(s2.hydrationLogs[today], s2.waterGoal)
                       THEN UpdatePoints(w2, 20, "generic")
                       ELSE w2)

\* window.modifyWater
modifyWater(w, amount) ==
    LET today == ToISODate(now)
        s1 == IF HydrationFalsy(w.store, today) THEN SetHydration(w.store, today, 0) ELSE w.store
        s2 == [SetHydration(s1, today, s1.hydrationLogs[today] + amount) EXCEPT !.lastDrink = now]
        w1 == [w EXCEPT !.store = s1]
        w2 == [w EXCEPT !.store = s2]
    IN  IF w.store.selectedDate # today THEN w
        ELSE IF amount < 0 /\ s1.hydrationLogs[today] <= 0 THEN w1
        ELSE saveStore(IF amount > 0 /\ GoalReached(s2.hydrationLogs[today], s2.waterGoal)
                       THEN UpdatePoints(w2, 20, "generic")
                       ELSE w2)

\* the hydration-goal awards a handler granted
GoalAwardsIn(calls) == Cardinality({k \in 1..Len(calls) : calls[k].amount = 20})

\* the history of hydration-goal awards after a handler that made `calls`
CountGoalAwards(calls) ==
    LET today == ToISODate(now)
        before == IF goalAwards.date = today THEN goalAwards.n ELSE 0
    IN  goalAwards' = [date |-> today, n |-> before + GoalAwardsIn(calls)]

\* a click on water-add-btn: setupUtilities runs twice (init), so setupWater
\* has attached its listener twice and both run
WaterAddClick ==
    /\ HydrationOf(store, ToISODate(now)) + 2 <= MaxCups
    /\ LET w == waterAdd(waterAdd(World))
       IN  /\ Commit(w, "waterAddClick", 1)
           /\ CountGoalAwards(w.calls)
    /\ goalAwards'.n <= MaxGoalAwards
    /\ UNCHANGED <<now, tz, generateIdDefined, secureContext, timerState, timerInterval, timers, out, pendingDeleteId, nextId, taskApplied, bountyAwards, counted>>

\* a click on water-remove-btn: both attached listeners run
WaterRemoveClick ==
    /\ Commit(waterRemove(waterRemove(World)), "waterRemoveClick", 0 - 1)
    /\ UNCHANGED <<now, tz, generateIdDefined, secureContext, timerState, timerInterval, timers, out, pendingDeleteId, nextId, taskApplied,
                   goalAwards, bountyAwards, counted>>

\* a click on the plus or minus button of the timeline hydration widget
ModifyWater(amount) ==
    /\ HydrationOf(store, ToISODate(now)) + amount <= MaxCups
    /\ LET w == modifyWater(World, amount)
       IN  /\ Commit(w, "modifyWater", amount)
           /\ CountGoalAwards(w.calls)
    /\ goalAwards'.n <= MaxGoalAwards
    /\ UNCHANGED <<now, tz, generateIdDefined, secureContext, timerState, timerInterval, timers, out, pendingDeleteId, nextId, taskApplied, bountyAwards, counted>>

InitWater ==
    /\ now = StartDay * MinutesPerDay
    /\ tz = 0
    /\ generateIdDefined = FALSE
    /\ secureContext = TRUE
    /\ InitCommon

NextWater ==
    \/ WaterAddClick
    \/ WaterRemoveClick
    \/ \E amount \in {1, 0 - 1} : ModifyWater(amount)
    \/ \E i \in 0..MaxAhead : SelectDate(i)
    \/ AdvanceClock(MinutesPerDay)

SpecWater == InitWater /\ [][NextWater]_vars

\* -------------------------------------------------------- wake-up bounty
\* (now - targetTime) / 60000, targetTime being today's local wakeTime
DiffMins(s) == LocalMinutes(now) - TimeToMinutes(s.wakeTime)

\* checkWakeUpBounty
checkWakeUpBounty(w) ==
    LET today == ToISODate(now)
        diffMins == DiffMins(w.store)
    IN  IF diffMins >= 0 /\ diffMins <= BOUNTY_WINDOW /\ w.store.lastBountyDate # today
        THEN saveStore(UpdatePoints([w EXCEPT !.store.lastBountyDate = today], 100, "generic"))
        ELSE w

\* the startup check and the heartbeat's: checkWakeUpBounty (the other
\* calls of the heartbeat read the store and change none of it)
Heartbeat ==
    /\ LET w == checkWakeUpBounty(World)
           day == LocalDate(now)
           before == IF bountyAwards.date = day THEN bountyAwards.n ELSE 0
       IN  /\ Commit(w, "checkWakeUpBounty", Len(w.calls))
           /\ bountyAwards' = [date |-> day, n |-> before + Len(w.calls)]
    /\ UNCHANGED <<now, tz, generateIdDefined, secureContext, timerState, timerInterval, timers, out, pendingDeleteId, nextId, taskApplied, goalAwards, counted>>

WakeTimes == {<<5, 0>>, <<7, 0>>, <<18, 30>>}

\* the setting-wake-time change handler
SetWakeTime(hm) ==
    /\ Commit(saveStore([World EXCEPT !.store.wakeTime = hm]), "setWakeTime", TimeToMinutes(hm))
    /\ UNCHANGED <<now, tz, generateIdDefined, secureContext, timerState, timerInterval, timers, out, pendingDeleteId, nextId, taskApplied,
                   goalAwards, bountyAwards, counted>>

InitBounty ==
    /\ now = StartDay * MinutesPerDay
    /\ tz \in TZOffsets
    /\ generateIdDefined = FALSE
    /\ secureContext = TRUE
    /\ InitCommon

NextBounty ==
    \/ Heartbeat
    \/ \E hm \in WakeTimes : SetWakeTime(hm)
    \/ AdvanceClock(HalfHour)

SpecBounty == InitBounty /\ [][NextBounty]_vars

\* ------------------------------------------------------------- timeline
RECURSIVE InsertByStart(_, _)
\* the place a stable sort on startTime gives t among the tasks sorted
\* before it: behind every task that starts no later
InsertByStart(sorted, t) ==
    IF sorted = <<>> THEN <<t>>
    ELSE IF TimeLess(t.startTime, Head(sorted).startTime) THEN <<t>> \o sorted
    ELSE <<Head(sorted)>> \o InsertByStart(Tail(sorted), t)

RECURSIVE SortByStart(_)
\* tasks.sort((a, b) => a.startTime.localeCompare(b.startTime)), a stable sort
SortByStart(tasks) ==
    IF tasks = <<>> THEN <<>>
    ELSE InsertByStart(SortByStart(SubSeq(tasks, 1, Len(tasks) - 1)), tasks[Len(tasks)])

\* the overlap test taking a task that starts when the cluster ends
Overlaps_Inclusive(t, clusterEndTime) == TimeLeq(t.startTime, clusterEndTime)

\* renderUI: task.startTime < clusterEndTime
Overlaps(t, clusterEndTime) == TimeLess(t.startTime, clusterEndTime)

\* renderUI: one turn of sortedTasks.forEach
ClusterStep(acc, t, sel) ==
    IF IsDeletedOn(t, sel) THEN acc
    ELSE IF Len(acc.currentCluster) > 0 /\ Overlaps(t, acc.clusterEndTime)
    THEN [acc EXCEPT !.currentCluster = Append(@, t),
                     !.clusterEndTime = IF TimeLess(@, t.endTime) THEN t.endTime ELSE @]
    ELSE [clusters |-> IF Len(acc.currentCluster) > 0
                       THEN Append(acc.clusters, acc.currentCluster)
                       ELSE acc.clusters,
          currentCluster |-> <<t>>,
          clusterEndTime |-> t.endTime]

RECURSIVE ClusterAll(_, _, _)
\* renderUI: sortedTasks.forEach
ClusterAll(acc, sorted, sel) ==
    IF sorted = <<>> THEN acc
    ELSE ClusterAll(ClusterStep(acc, Head(sorted), sel), Tail(sorted), sel)

\* renderUI: the clusters of the selected date
BuildClusters(s) ==
    LET sel == s.selectedDate
        sortedTasks == SortByStart(SelectSeq(s.tasks, LAMBDA t : TimelineFilter(t, sel)))
        acc == ClusterAll([clusters |-> <<>>, currentCluster |-> <<>>, clusterEndTime |-> <<0, 0>>],
                          sortedTasks, sel)
    IN  IF Len(acc.currentCluster) > 0 THEN Append(acc.clusters, acc.currentCluster)
        ELSE acc.clusters

\* renderUI, as far as the timeline goes
RenderUI ==
    /\ out' = [kind |-> "timeline", clusters |-> BuildClusters(store)]
    /\ lastOp' = [op |-> "renderUI", arg |-> store.selectedDate, calls |-> <<>>]
    /\ UNCHANGED <<now, tz, generateIdDefined, secureContext, timerState, timerInterval, timers, store, saved, pending, pendingDeleteId, nextId,
                   taskApplied, highPoints, goalAwards, bountyAwards, counted>>

\* the tasks the editor, the check button and the delete modal can leave in
\* the store: a start and an end time, and one of three kinds
TimelineSlots ==
    {<<<<9, 0>>, <<11, 0>>>>, <<<<9, 30>>, <<10, 0>>>>, <<<<10, 30>>, <<11, 30>>>>,
     <<<<11, 0>>, <<12, 0>>>>, <<<<9, 0>>, <<9, 30>>>>}

\* the k-th task of the store: daily, once on StartDay, or daily with its
\* occurrence on StartDay deleted
MakeTask(k, slot, kind, completed) ==
    [id |-> k,
     startTime |-> slot[1],
     endTime |-> slot[2],
     completed |-> completed,
     recurrence |-> IF kind = "once" THEN "none" ELSE "daily",
     days |-> IF kind = "once" THEN {} ELSE 0..6,
     date |-> IF kind = "once" THEN StartDay ELSE NoDate,
     hasDeletedDates |-> kind = "skipped",
     deletedDates |-> IF kind = "skipped" THEN <<StartDay>> ELSE <<>>]

\* the task lists of at most MaxListed tasks over the given shapes
TaskLists(shapes) ==
    UNION {{[k \in 1..n |-> MakeTask(k, f[k].slot, f[k].kind, f[k].completed)] : f \in [1..n -> shapes]}
           : n \in 0..MaxListed}

\* every slot as a daily task; two of them also once and skipped
TimelineShapes ==
    [slot : TimelineSlots, kind : {"daily"}, completed : {FALSE}]
    \cup [slot : {<<<<9, 0>>, <<11, 0>>>>, <<<<10, 30>>, <<11, 30>>>>},
          kind : {"once", "skipped"}, completed : {FALSE}]

InitTimeline ==
    /\ now = StartDay * MinutesPerDay
    /\ tz = 0
    /\ generateIdDefined = FALSE
    /\ secureContext = TRUE
    /\ \E ts \in TaskLists(TimelineShapes) :
          /\ store = [DefaultStore(ToISODate(now)) EXCEPT !.tasks = ts]
          /\ nextId = Len(ts) + 1
    /\ saved = store
    /\ InitRest

NextTimeline ==
    \/ RenderUI
    \/ \E i \in 0..MaxAhead : SelectDate(i)

SpecTimeline == InitTimeline /\ [][NextTimeline]_vars

\* the delete modal over a store of several tasks: one-off, daily as the
\* editor makes them, and daily with a deleted occurrence
DeleteShapes == [slot : TaskSlots, kind : {"once", "daily", "skipped"}, completed : {FALSE}]

DeleteScopes == {"all", "this"}

InitDelete ==
    /\ now = StartDay * MinutesPerDay
    /\ tz = 0
    /\ generateIdDefined = FALSE
    /\ secureContext = TRUE
    /\ \E ts \in {l \in TaskLists(DeleteShapes) : Len(l) <= MaxTasks + 1} :
          /\ store = [DefaultStore(ToISODate(now)) EXCEPT !.tasks = ts]
          /\ nextId = Len(ts) + 1
    /\ saved = store
    /\ InitRest

NextDelete ==
    \/ \E id \in 1..(MaxTasks + 1) : OpenDeleteModal(id)
    \/ \E scope \in DeleteScopes : ConfirmDelete(scope)
    \/ CancelDelete
    \/ \E i \in 0..MaxAhead : SelectDate(i)

SpecDelete == InitDelete /\ [][NextDelete]_vars

\* ---------------------------------------------------------- meal tasks
\* a task with its title, which the other handlers never read
Titled(t, title) ==
    [f \in DOMAIN t \cup {"title"} |-> IF f = "title" THEN title ELSE t[f]]

\* the editor-form submit handler in task mode, the title kept
submitTitledTask(w, title, startTime, endTime, recurrence) ==
    LET w1 == submitTask(w, startTime, endTime, recurrence, {})
    IN  saveStore([w1 EXCEPT !.store.tasks[Len(w1.store.tasks)] = Titled(@, title)])

\* DEFAULT_STATE.user.settings.meals with the durations of addMealSchedule
Meals ==
    <<[title |-> "Breakfast", time |-> <<8, 0>>, duration |-> 30],
      [title |-> "Lunch", time |-> <<13, 0>>, duration |-> 45],
      [title |-> "Dinner", time |-> <<20, 0>>, duration |-> 45]>>

\* HH:MM of endD after endD.setHours(h, min + m.duration, 0, 0)
MealEnd(m) ==
    LET e == (TimeToMinutes(m.time) + m.duration) % MinutesPerDay
    IN  <<e \div 60, e % 60>>

\* store.tasks.some(t => t.title === m.title && t.recurrence === 'daily' &&
\* !t.deletedDates.includes(today)): the tasks are tested in order, and the
\* test raises a TypeError on a daily task of that title with no deletedDates
RECURSIVE MealExists(_, _, _)
MealExists(tasks, title, today) ==
    IF tasks = <<>> THEN "false"
    ELSE IF Head(tasks).title = title /\ Head(tasks).recurrence = "daily"
    THEN IF ~Head(tasks).hasDeletedDates THEN "threw"
         ELSE IF ~Includes(Head(tasks).deletedDates, today) THEN "true"
         ELSE MealExists(Tail(tasks), title, today)
    ELSE MealExists(Tail(tasks), title, today)

\* the task addMealSchedule makes for a meal
MealTask(m, id) ==
    [id |-> id,
     title |-> m.title,
     startTime |-> m.time,
     endTime |-> MealEnd(m),
     completed |-> FALSE,
     recurrence |-> "daily",
     days |-> 0..6,
     date |-> NoDate,
     hasDeletedDates |-> TRUE,
     deletedDates |-> <<>>]

\* one round of meals.forEach: the world so far, whether the callback has
\* thrown, and addedCount
MealStep(acc, m) ==
    LET exists == MealExists(acc.w.store.tasks, m.title, ToISODate(now))
    IN  IF acc.threw \/ exists = "true" THEN acc
        ELSE IF exists = "threw" THEN [acc EXCEPT !.threw = TRUE]
        ELSE [acc EXCEPT !.w.store.tasks = Append(@, MealTask(m, nextId + acc.added)),
                         !.added = @ + 1]

\* addMealSchedule: the rounds in order; saveStore when a task was added and
\* no round threw
addMealSchedule(w) ==
    LET a == MealStep(MealStep(MealStep([w |-> w, threw |-> FALSE, added |-> 0],
                                        Meals[1]), Meals[2]), Meals[3])
    IN  IF ~a.threw /\ a.added > 0 THEN [a EXCEPT !.w = saveStore(@)] ELSE a

\* the titles typed into the editor
EditorTitles == {"Lunch"}

\* the editor saves a new task
SubmitTitledTask(title, recurrence) ==
    /\ nextId <= MaxMealIds
    /\ \E slot \in TaskSlots :
          Commit(submitTitledTask(World, title, slot[1], slot[2], recurrence), "submitTask", nextId)
    /\ nextId' = nextId + 1
    /\ UNCHANGED <<now, tz, generateIdDefined, secureContext, timerState, timerInterval, timers, out, pendingDeleteId>>
    /\ UnchangedHistory

\* a click on add-meal-schedule-btn
AddMealSchedule ==
    /\ pendingDeleteId = NoId
    /\ LET a == addMealSchedule(World)
       IN  /\ nextId + a.added - 1 <= MaxMealIds
           /\ Commit(a.w, IF a.threw THEN "addMealScheduleThrew" ELSE "addMealSchedule", a.added)
           /\ nextId' = nextId + a.added
    /\ UNCHANGED <<now, tz, generateIdDefined, secureContext, timerState, timerInterval, timers, out, pendingDeleteId>>
    /\ UnchangedHistory

InitMeals ==
    /\ now = StartDay * MinutesPerDay
    /\ tz = 0
    /\ generateIdDefined = FALSE
    /\ secureContext = TRUE
    /\ InitCommon

NextMeals ==
    \/ \E title \in EditorTitles, r \in {"none", "daily"} : SubmitTitledTask(title, r)
    \/ \E id \in 1..MaxMealIds : OpenDeleteModal(id)
    \/ \E scope \in DeleteScopes : ConfirmDelete(scope)
    \/ CancelDelete
    \/ \E i \in 0..MaxAhead : SelectDate(i)
    \/ AddMealSchedule

SpecMeals == InitMeals /\ [][NextMeals]_vars

\* --------------------------------------------------------- current task
\* Array.prototype.find, given the indices of the elements the test takes:
\* the first of them, 0 when there is none
FindFirst(taken) ==
    IF taken = {} THEN 0 ELSE CHOOSE k \in taken : \A j \in taken : k <= j

\* the containment test with both bounds left out
ContainsNow_Exclusive(t, currentTime) ==
    TimeLess(t.startTime, currentTime) /\ TimeLess(currentTime, t.endTime)

\* updateCurrentTask: currentTime >= t.startTime && currentTime <= t.endTime
ContainsNow(t, currentTime) ==
    TimeLeq(t.startTime, currentTime) /\ TimeLeq(currentTime, t.endTime)

\* the flag read the wrong way round
AllDone_Negated(todayTasks) ==
    Len(todayTasks) > 0 /\ \A k \in 1..Len(todayTasks) : ~todayTasks[k].completed

\* updateCurrentTask: todayTasks.length > 0 && todayTasks.every(t => t.completed)
AllDone(todayTasks) ==
    Len(todayTasks) > 0 /\ \A k \in 1..Len(todayTasks) : todayTasks[k].completed

\* the test taking a task that starts this very minute
StartsAfter_Inclusive(t, currentTime) == TimeLeq(currentTime, t.startTime)

\* updateCurrentTask: t.startTime > currentTime
StartsAfter(t, currentTime) == TimeLess(currentTime, t.startTime)

\* the comparison the wrong way round
PastEnd_Flipped(t, currentTime) == TimeLess(currentTime, t.endTime)

\* the comparison on the hours alone
PastEnd_HoursOnly(t, currentTime) == currentTime[1] > t.endTime[1]

\* updateCurrentTask: currentTime > sortedTasks[sortedTasks.length-1].endTime
PastEnd(t, currentTime) == TimeLess(t.endTime, currentTime)

\* what updateCurrentTask writes to the current-task display
Status(status, id) == [kind |-> "status", status |-> status, id |-> id]

\* updateCurrentTask at instant i
updateCurrentTask(s, i) ==
    LET currentTime == CurrentTime(i)
        sortedTasks == SortByStart(SelectSeq(s.tasks, LAMBDA t : TodayFilter(t, i)))
        current == FindFirst({k \in 1..Len(sortedTasks) : ContainsNow(sortedTasks[k], currentTime)})
        next == FindFirst({k \in 1..Len(sortedTasks) : StartsAfter(sortedTasks[k], currentTime)})
    IN  IF current # 0 THEN Status("CURRENT", sortedTasks[current].id)
        ELSE IF AllDone(sortedTasks) THEN Status("DAY_COMPLETE", NoId)
        ELSE IF next # 0 THEN Status("NEXT", sortedTasks[next].id)
        ELSE IF Len(sortedTasks) > 0 /\ PastEnd(sortedTasks[Len(sortedTasks)], currentTime)
        THEN IF \E k \in 1..Len(sortedTasks) : ~sortedTasks[k].completed
             THEN Status("DAY_ENDED", NoId)
             ELSE Status("DAY_COMPLETE", NoId)
        ELSE Status("IDLE", NoId)

\* the heartbeat's updateCurrentTask
UpdateCurrentTask ==
    /\ out' = updateCurrentTask(store, now)
    /\ lastOp' = [op |-> "updateCurrentTask", arg |-> LocalMinutes(now), calls |-> <<>>]
    /\ UNCHANGED <<now, tz, generateIdDefined, secureContext, timerState, timerInterval, timers, store, saved, pending, pendingDeleteId, nextId,
                   taskApplied, highPoints, goalAwards, bountyAwards, counted>>

\* two overlapping morning tasks, and an evening task that ends after midnight
StatusSlots == {<<<<9, 0>>, <<10, 0>>>>, <<<<9, 30>>, <<11, 0>>>>, <<<<20, 0>>, <<1, 0>>>>}

StatusShapes ==
    [slot : StatusSlots, kind : {"daily"}, completed : BOOLEAN]
    \cup [slot : {<<<<9, 0>>, <<10, 0>>>>}, kind : {"once", "skipped"}, completed : {FALSE}]

\* the local times of day the status is asked at
StatusMinutes == {480, 540, 600, 630, 660, 661, 1200, 1260}

InitStatus ==
    /\ tz \in TZOffsets
    /\ \E m \in StatusMinutes : now = StartDay * MinutesPerDay + m - tz
    /\ generateIdDefined = FALSE
    /\ secureContext = TRUE
    /\ \E ts \in TaskLists(StatusShapes) :
          /\ store = [DefaultStore(ToISODate(now)) EXCEPT !.tasks = ts]
          /\ nextId = Len(ts) + 1
    /\ saved = store
    /\ InitRest

NextStatus == UpdateCurrentTask

SpecStatus == InitStatus /\ [][NextStatus]_vars

\* -------------------------------------------------------- notifications
\* a call of showNotification: its kind and the task it is about
Notice(type, id) == [type |-> type, id |-> id]

\* every task notification titled "Starting"
TaskNotice_AlwaysStarting(t, i) == Notice("Starting", t.id)

\* checkNotifications: the notification of one task of tasksStarting
TaskNotice(t, i) ==
    IF TimeToMinutes(t.startTime) - LocalMinutes(i) = 5
    THEN Notice("Up Next", t.id)
    ELSE Notice("Starting", t.id)

\* the active hours without their first and last hour
ActiveHours_Exclusive(hour) == hour > 9 /\ hour < 21

\* checkNotifications: hour >= 9 && hour <= 21
ActiveHours(hour) == hour >= 9 /\ hour <= 21

\* settings.sleepTime being the empty string
NoTime == <<>>

\* HH:MM of new Date(sleepDate.getTime() - 30 * 60000)
RemindTime(sleepTime) ==
    LET r == (TimeToMinutes(sleepTime) - 30) % MinutesPerDay
    IN  <<r \div 60, r % 60>>

\* checkNotifications at instant i: the showNotification calls it makes
checkNotifications(s, i) ==
    LET tasksStarting == SelectSeq(s.tasks, LAMBDA t : NotifyFilter(t, i))
        taskNotices == [k \in 1..Len(tasksStarting) |-> TaskNotice(tasksStarting[k], i)]
        waterDue == /\ s.waterReminders
                    /\ i - s.lastDrink > 60
                    /\ ActiveHours(LocalMinutes(i) \div 60)
        goalMet == HydrationOf(s, ToISODate(i)) >= s.waterGoal
        hydrate == IF waterDue /\ LocalMinutes(i) % 60 = 0
                   THEN <<Notice("Time to Hydrate", NoId)>> ELSE <<>>
        windDown == IF /\ s.notificationsEnabled
                       /\ s.sleepTime # NoTime
                       /\ CurrentTime(i) = RemindTime(s.sleepTime)
                    THEN <<Notice("Wind Down Time", NoId)>> ELSE <<>>
    IN  IF ~s.notificationsEnabled THEN <<>>
        ELSE IF waterDue /\ goalMet THEN taskNotices
        ELSE taskNotices \o hydrate \o windDown

\* a debounce written to the store when the hydration nag is shown
NotifyWrites_Debounce(s, i) ==
    IF \E k \in 1..Len(checkNotifications(s, i)) :
           checkNotifications(s, i)[k].type = "Time to Hydrate"
    THEN [s EXCEPT !.lastDrink = i]
    ELSE s

\* checkNotifications: the store it leaves; it assigns to no field of it
NotifyWrites(s, i) == s

\* the startup call and the heartbeat's call of checkNotifications
CheckNotifications ==
    /\ out' = [kind |-> "notifications", fired |-> checkNotifications(store, now)]
    /\ store' = NotifyWrites(store, now)
    /\ lastOp' = [op |-> "checkNotifications", arg |-> LocalMinutes(now), calls |-> <<>>]
    /\ UNCHANGED <<now, tz, generateIdDefined, secureContext, timerState, timerInterval, timers, saved, pending, pendingDeleteId, nextId,
                   taskApplied, highPoints, goalAwards, bountyAwards, counted>>

NotifyShapes ==
    [slot : {<<<<9, 0>>, <<10, 0>>>>, <<<<9, 5>>, <<9, 30>>>>, <<<<21, 35>>, <<22, 0>>>>},
     kind : {"daily"}, completed : {FALSE}]
    \cup [slot : {<<<<9, 0>>, <<10, 0>>>>}, kind : {"skipped"}, completed : {FALSE}]

\* the local times of day of the ticks
NotifyMinutes == {535, 540, 1290, 1320, 1350, 1425}

SleepTimes == {<<22, 0>>, <<23, 0>>, <<0, 15>>}

InitNotify ==
    /\ tz \in TZOffsets
    /\ \E m \in NotifyMinutes : now = StartDay * MinutesPerDay + m - tz
    /\ generateIdDefined = FALSE
    /\ secureContext = TRUE
    /\ \E ts \in TaskLists(NotifyShapes), enabled \in BOOLEAN, reminders \in BOOLEAN,
          ago \in {30, 61}, cups \in {0, DEFAULT_GOAL}, sleepTime \in SleepTimes :
          /\ store = [SetHydration(DefaultStore(ToISODate(now)), ToISODate(now), cups)
                         EXCEPT !.tasks = ts,
                                !.notificationsEnabled = enabled,
                                !.waterReminders = reminders,
                                !.lastDrink = now - ago,
                                !.sleepTime = sleepTime]
          /\ nextId = Len(ts) + 1
    /\ saved = store
    /\ InitRest

NextNotify == CheckNotifications

SpecNotify == InitNotify /\ [][NextNotify]_vars

\* --------------------------------------------------------------- import
\* the value JSON.parse gives for the document "{}"
EmptyObject == [k \in {} |-> k]

\* whether renderUI can read the value as the store: store.user.points,
\* store.tasks.filter and the rest throw a TypeError on anything else
IsAggregate(s) == {"points", "tasks", "selectedDate", "hydrationLogs"} \subseteq DOMAIN s

\* a backup exported earlier: a task the editor made and one with a
\* skipped occurrence, three cups and forty points
Backup ==
    [SetHydration(DefaultStore(StartDay), StartDay, 3) EXCEPT
        !.points = 40,
        !.tasks = <<MakeTask(1, <<<<9, 0>>, <<10, 0>>>>, "daily", FALSE),
                    MakeTask(2, <<<<10, 30>>, <<11, 30>>>>, "skipped", TRUE)>>]

\* JSON.stringify writes no member for a property the task does not have:
\* deletedDates, on a task no occurrence was deleted from
TaskToJSON(t) ==
    [f \in (DOMAIN t \ {"hasDeletedDates"})
            \ (IF t.hasDeletedDates THEN {} ELSE {"deletedDates"}) |-> t[f]]

\* JSON.parse of a task member list: a property with no member is absent
TaskFromJSON(j) ==
    [f \in DOMAIN j \cup {"hasDeletedDates", "deletedDates"} |->
        IF f = "hasDeletedDates" THEN "deletedDates" \in DOMAIN j
        ELSE IF f \in DOMAIN j THEN j[f]
        ELSE <<>>]

Omitted_Falsy(s) ==
    {f \in {"lastBountyDate", "points"} \cap DOMAIN s : s[f] = NoDate \/ s[f] = 0}

\* the properties JSON.stringify writes no member for: those whose value
\* is undefined (user.lastBountyDate, until a bounty was claimed)
Omitted(s) == {f \in {"lastBountyDate"} \cap DOMAIN s : s[f] = NoDate}

\* JSON.stringify(store): the members of the document
JSONStringify(s) ==
    [f \in DOMAIN s \ Omitted(s) |->
        IF f = "tasks" THEN [k \in 1..Len(s.tasks) |-> TaskToJSON(s.tasks[k])]
        ELSE s[f]]

\* JSON.parse(text): the object the members build; in an aggregate state
\* a property with no member reads as undefined
JSONParse(doc) ==
    [f \in DOMAIN doc \cup (IF IsAggregate(doc) THEN {"lastBountyDate"} ELSE {}) |->
        IF f \notin DOMAIN doc THEN NoDate
        ELSE IF f = "tasks" THEN [k \in 1..Len(doc.tasks) |-> TaskFromJSON(doc.tasks[k])]
        ELSE doc[f]]

\* the name of the file the export-btn download is saved under
ExportedFile == "flow_backup.json"

\* the files given to import-file: one that is not JSON, one that is JSON
\* but no aggregate state, and a backup
ImportFiles == {"notes.txt", "empty.json", "backup.json"}

\* reader.readAsText(file), and whether JSON.parse takes the text
ReadFile(file) ==
    IF file = "notes.txt" THEN [json |-> FALSE, value |-> EmptyObject]
    ELSE IF file = "empty.json" THEN [json |-> TRUE, value |-> EmptyObject]
    ELSE IF file = ExportedFile THEN [json |-> TRUE, value |-> JSONParse(out.href)]
    ELSE [json |-> TRUE, value |-> Backup]

\* reader.onload of the import-file change handler: the try block stops at
\* the first statement that throws
importFile(w, doc) ==
    IF ~doc.json THEN w
    ELSE saveStore([w EXCEPT !.store = doc.value])

\* the toast reader.onload ends with
importToast(doc) ==
    IF doc.json /\ IsAggregate(doc.value) THEN "success" ELSE "error"

\* a file is chosen in import-file and read
ImportFile(file) ==
    /\ file = ExportedFile => out.kind = "download"
    /\ LET w == importFile(World, ReadFile(file))
       IN  /\ store' = w.store
           /\ saved' = w.saved
           /\ pending' = w.pending
           /\ highPoints' = IF IsAggregate(w.store) THEN Max(highPoints, w.store.points)
                             ELSE highPoints
    /\ out' = [kind |-> "toast", toast |-> importToast(ReadFile(file))]
    /\ lastOp' = [op |-> "import", arg |-> file, calls |-> <<>>]
    /\ UNCHANGED <<now, tz, generateIdDefined, secureContext, timerState, timerInterval, timers, pendingDeleteId, nextId,
                   taskApplied, goalAwards, bountyAwards, counted>>

\* export-btn click: the store is downloaded as a JSON document; the
\* state it was taken from is kept next to it for the round trip
ExportStore ==
    /\ out' = [kind |-> "download", href |-> JSONStringify(store), state |-> store]
    /\ lastOp' = [op |-> "export", arg |-> ExportedFile, calls |-> <<>>]
    /\ UNCHANGED <<now, tz, generateIdDefined, secureContext, timerState, timerInterval, timers, store, saved, pending, pendingDeleteId, nextId,
                   taskApplied, highPoints, goalAwards, bountyAwards, counted>>

InitImport ==
    /\ now = StartDay * MinutesPerDay
    /\ tz = 0
    /\ generateIdDefined = FALSE
    /\ secureContext = TRUE
    /\ InitCommon

\* modifyWater on the store an import left: it throws a TypeError on its
\* first read when the store is no aggregate, before it writes anything
ModifyWaterAfterImport(amount) == IsAggregate(store) /\ ModifyWater(amount)

\* the day buttons of the weekly scroller, likewise
SelectDateAfterImport(i) == IsAggregate(store) /\ SelectDate(i)

NextImport ==
    \/ \E file \in ImportFiles : ImportFile(file)
    \/ \E amount \in {1, 0 - 1} : ModifyWaterAfterImport(amount)
    \/ \E i \in 0..MaxAhead : SelectDateAfterImport(i)
    \/ AdvanceClock(MinutesPerDay)

SpecImport == InitImport /\ [][NextImport]_vars

\* exports and imports, the exported document among the files, between
\* hydration changes and date selections
NextBackup ==
    \/ ExportStore
    \/ \E file \in ImportFiles \cup {ExportedFile} : ImportFile(file)
    \/ \E amount \in {1, 0 - 1} : ModifyWaterAfterImport(amount)
    \/ \E i \in 0..MaxAhead : SelectDateAfterImport(i)

SpecBackup == InitImport /\ [][NextBackup]_vars

\* ------------------------------------------------------------ loadStore
\* In this part the store keeps the nesting of DEFAULT_STATE (user,
\* user.water, user.settings, user.settings.meals, rewards), which the
\* merge of loadStore works on, and a JSON object is a record over the
\* properties it has.

\* DEFAULT_STATE as the script builds it at the instant `now`
DEFAULT_STATE ==
    [tasks |-> <<>>,
     notes |-> <<>>,
     hydrationLogs |-> EmptyObject,
     user |-> [points |-> 0,
               streak |-> 0,
               lastActiveDate |-> ToISODate(now),
               selectedDate |-> ToISODate(now),
               water |-> [goal |-> DEFAULT_GOAL, lastDrink |-> now, reminders |-> FALSE],
               settings |-> [notificationsEnabled |-> FALSE,
                             darkMode |-> FALSE,
                             wakeTime |-> <<7, 0>>,
                             sleepTime |-> <<23, 0>>,
                             meals |-> [breakfast |-> <<8, 0>>,
                                        lunch |-> <<13, 0>>,
                                        dinner |-> <<20, 0>>]]],
     weather |-> [data |-> NoDate, lastFetched |-> 0, cacheDuration |-> HalfHour],
     rewards |-> [saplings |-> <<>>,
                  dailyPoints |-> [date |-> ToISODate(now), count |-> 0],
                  totalPointsEarned |-> 0]]

\* a spread in which the defaults overwrite what was persisted
Spread_DefaultsWin(a, b) ==
    [f \in DOMAIN a \cup DOMAIN b |-> IF f \in DOMAIN a THEN a[f] ELSE b[f]]

\* { ...a, ...b }: the properties of both, those of b winning
Spread(a, b) ==
    [f \in DOMAIN a \cup DOMAIN b |-> IF f \in DOMAIN b THEN b[f] ELSE a[f]]

\* obj?.f as a spread uses it: spreading undefined adds nothing
Sub(obj, f) == IF f \in DOMAIN obj THEN obj[f] ELSE EmptyObject

\* obj?.f || fallback, for a property that holds an object when it is there
OrElse(obj, f, fallback) == IF f \in DOMAIN obj THEN obj[f] ELSE fallback

\* the task migration keeping the deletedDates a legacy task came with
MigrateTask_KeepsDeleted(task) ==
    IF "recurrence" \notin DOMAIN task
    THEN Spread([recurrence |-> "daily", days |-> 0..6, date |-> NoDate,
                 deletedDates |-> <<>>], task)
    ELSE Spread([deletedDates |-> <<>>], task)

\* the callback of parsed.tasks.map: a task with no recurrence becomes a
\* daily one; any other gets a deletedDates list when it has none
MigrateTask(task) ==
    IF "recurrence" \notin DOMAIN task
    THEN Spread(task, [recurrence |-> "daily", days |-> 0..6, date |-> NoDate,
                       deletedDates |-> <<>>])
    ELSE Spread([deletedDates |-> <<>>], task)

\* the legacy counter user.water.current moves to hydrationLogs[today] when
\* it is of today and today has no cups logged
MigrateWater(merged, parsed) ==
    LET today == ToISODate(now)
        water == Sub(Sub(parsed, "user"), "water")
        logs == merged.hydrationLogs
    IN  IF /\ "current" \in DOMAIN water
           /\ (today \notin DOMAIN logs \/ logs[today] = 0)
           /\ "date" \in DOMAIN water
           /\ water.date = today
        THEN [merged EXCEPT !.hydrationLogs =
                 [d \in DOMAIN logs \cup {today} |->
                     IF d = today THEN water.current ELSE logs[d]]]
        ELSE merged

\* the merge of a parsed blob with DEFAULT_STATE
MergeDefaults(parsed) ==
    LET D == DEFAULT_STATE
        user == Sub(parsed, "user")
        settings == Sub(user, "settings")
        rewards == Sub(parsed, "rewards")
    IN  Spread(Spread(D, parsed),
          [user |-> Spread(Spread(D.user, user),
                      [selectedDate |-> IF "selectedDate" \in DOMAIN user
                                           /\ user.selectedDate # NoDate
                                        THEN user.selectedDate ELSE D.user.selectedDate,
                       water |-> Spread(D.user.water, Sub(user, "water")),
                       settings |-> Spread(Spread(D.user.settings, settings),
                                      [meals |-> Spread(D.user.settings.meals,
                                                        Sub(settings, "meals"))])]),
           hydrationLogs |-> OrElse(parsed, "hydrationLogs", EmptyObject),
           weather |-> OrElse(parsed, "weather", D.weather),
           rewards |-> Spread(Spread(D.rewards, rewards),
                         [saplings |-> OrElse(rewards, "saplings", <<>>),
                          dailyPoints |-> OrElse(rewards, "dailyPoints",
                                                 D.rewards.dailyPoints)])])

\* loadStore on what localStorage.getItem(DB_KEY) gives: nothing, a text
\* JSON.parse throws on, or a document
loadStore(raw) ==
    IF raw.kind # "json" THEN DEFAULT_STATE
    ELSE LET parsed == IF "tasks" \in DOMAIN raw.value
                       THEN [raw.value EXCEPT !.tasks =
                               [k \in 1..Len(@) |-> MigrateTask(@[k])]]
                       ELSE raw.value
         IN  MigrateWater(MergeDefaults(parsed), parsed)

\* tasks as older and newer versions of the editor persisted them
LegacyTask(id) ==
    [id |-> id, startTime |-> <<9, 0>>, endTime |-> <<10, 0>>, completed |-> FALSE]

EditorTask(id) ==
    Spread(LegacyTask(id), [recurrence |-> "weekdays", days |-> {1, 3, 5}, date |-> NoDate])

SkippedTask(id) == Spread(EditorTask(id), [deletedDates |-> <<StartDay>>])

\* the parts a persisted document may have or lack
TaskParts ==
    {EmptyObject,
     [tasks |-> <<>>],
     [tasks |-> <<LegacyTask(1)>>],
     [tasks |-> <<EditorTask(1), LegacyTask(2)>>],
     [tasks |-> <<SkippedTask(1), EditorTask(2)>>],
     [tasks |-> <<Spread(LegacyTask(1), [deletedDates |-> <<StartDay>>]), SkippedTask(2)>>]}

UserParts ==
    {EmptyObject,
     [user |-> [points |-> 40]],
     [user |-> [points |-> 40, selectedDate |-> StartDay - 1]],
     [user |-> [points |-> 40, water |-> [goal |-> 6]]],
     [user |-> [points |-> 40, water |-> [current |-> 3, date |-> StartDay]]],
     [user |-> [points |-> 40, water |-> [current |-> 3, date |-> StartDay - 1]]],
     [user |-> [points |-> 40, settings |-> [wakeTime |-> <<5, 0>>]]],
     [user |-> [points |-> 40, lastBountyDate |-> StartDay - 1,
                settings |-> [darkMode |-> TRUE, meals |-> [lunch |-> <<12, 0>>]]]]}

RewardsParts ==
    {EmptyObject,
     [rewards |-> [totalPointsEarned |-> 300]],
     [rewards |-> [saplings |-> <<>>,
                   dailyPoints |-> [date |-> StartDay - 1, count |-> 200],
                   totalPointsEarned |-> 300]]}

HydrationParts ==
    {EmptyObject,
     [hydrationLogs |-> [d \in {StartDay} |-> 0]],
     [hydrationLogs |-> [d \in {StartDay - 1, StartDay} |-> 5]]}

\* what localStorage may hold under DB_KEY when the script starts
PersistedBlobs ==
    {[kind |-> "absent"], [kind |-> "text"]}
    \cup {[kind |-> "json", value |-> Spread(Spread(t, u), Spread(r, h))] :
             t \in TaskParts, u \in UserParts, r \in RewardsParts, h \in HydrationParts}

\* let store = loadStore()
LoadStore ==
    /\ lastOp.op = "init"
    /\ store' = loadStore(saved)
    /\ lastOp' = [op |-> "loadStore", arg |-> 0, calls |-> <<>>]
    /\ UNCHANGED <<now, tz, generateIdDefined, secureContext, timerState, timerInterval, timers, out, saved, pending,
                   pendingDeleteId, nextId, highPoints>>
    /\ UnchangedHistory

\* the script starts with some blob persisted and store not yet assigned
InitLoad ==
    /\ now = StartDay * MinutesPerDay
    /\ tz = 0
    /\ generateIdDefined = FALSE
    /\ secureContext = TRUE
    /\ saved \in PersistedBlobs
    /\ store = EmptyObject
    /\ nextId = 1
    /\ InitRest

NextLoad == LoadStore

SpecLoad == InitLoad /\ [][NextLoad]_vars

\* ---------------------------------------------------------- focus timer
\* the countdown as the timer functions see it
Focus == [timerState |-> timerState, timerInterval |-> timerInterval, timers |-> timers]

\* clearInterval(handle): null and handles already cleared are ignored
clearInterval(f) == [f EXCEPT !.timers.live = @ \ {f.timerInterval}]

\* toggleTimer pausing without clearInterval
toggleTimer_KeepsInterval(f) ==
    IF ~f.timerState.isActive
    THEN [f EXCEPT !.timerState.isActive = TRUE,
                   !.timers.finishEnabled = TRUE,
                   !.timerInterval = f.timers.issued + 1,
                   !.timers.live = @ \cup {f.timers.issued + 1},
                   !.timers.issued = @ + 1]
    ELSE [f EXCEPT !.timerState.isActive = FALSE]

\* toggleTimer: flip isActive, then start an interval or clear the one held
toggleTimer(f) ==
    IF ~f.timerState.isActive
    THEN [f EXCEPT !.timerState.isActive = TRUE,
                   !.timers.finishEnabled = TRUE,
                   !.timerInterval = f.timers.issued + 1,
                   !.timers.live = @ \cup {f.timers.issued + 1},
                   !.timers.issued = @ + 1]
    ELSE clearInterval([f EXCEPT !.timerState.isActive = FALSE])

\* resetTimer
resetTimer(f) ==
    [clearInterval(f) EXCEPT !.timerState.isActive = FALSE,
                             !.timerState.timeLeft = f.timerState.totalTime,
                             !.timers.finishEnabled = FALSE]

\* finishTimer, its part on the countdown: the interval is cleared, the
\* display goes to zero and a timeout is set to restore it
finishTimerFocus(f) ==
    [clearInterval(f) EXCEPT !.timerState.isActive = FALSE,
                             !.timerState.timeLeft = 0,
                             !.timers.finishEnabled = FALSE,
                             !.timers.timeouts = @ + 1]

\* finishTimer, its part on the store: the award, then toggleTask on the
\* linked task when the confirm dialog is accepted
finishTimerStore(w, taskId, confirmed) ==
    LET w1 == UpdatePoints(w, 50, "generic")
    IN  IF taskId # NoId /\ confirmed THEN toggleTask(w1, taskId) ELSE w1

\* setTimerDuration
setTimerDuration(f, seconds) ==
    IF f.timerState.isActive THEN f
    ELSE [f EXCEPT !.timerState.timeLeft = seconds, !.timerState.totalTime = seconds]

\* window.openFocusMode
openFocusMode(f, s, taskId) ==
    [f EXCEPT !.timerState.taskId = IF FindTask(s, taskId) # 0 THEN taskId ELSE NoId]

\* what a timer function leaves behind
CommitFocus(f) ==
    /\ timerState' = f.timerState
    /\ timerInterval' = f.timerInterval
    /\ timers' = f.timers

\* a step of the countdown that leaves the store alone; timeLeft is left as
\* it was, counted down by one second, or set to another value
FocusOnly(f, op, arg) ==
    /\ CommitFocus(f)
    /\ lastOp' = [op |-> op, arg |-> arg, calls |-> <<>>]
    /\ counted' = IF op \in {"toggleTimer", "openFocusMode"} THEN counted
                  ELSE IF op = "tick" THEN counted + 1
                  ELSE IF op = "setTimerDuration" /\ timerState.isActive THEN counted
                  ELSE 0
    /\ UNCHANGED <<now, tz, generateIdDefined, secureContext, out, store, saved, pending,
                   pendingDeleteId, nextId, highPoints, taskApplied, goalAwards, bountyAwards>>

\* finishTimer as a whole
FinishTimer(op, confirmed) ==
    /\ store.points + 50 <= MaxPoints
    /\ store.totalPointsEarned + 50 <= MaxTotal
    /\ LET w == finishTimerStore(World, timerState.taskId, confirmed)
       IN  /\ Len(w.pending) <= MaxPending
           /\ Commit(w, op, timerState.taskId)
    /\ CommitFocus(finishTimerFocus(Focus))
    /\ counted' = 0
    /\ UNCHANGED <<now, tz, generateIdDefined, secureContext, out, pendingDeleteId, nextId,
                   taskApplied, goalAwards, bountyAwards>>

\* a click on timer-toggle-btn
ToggleTimer ==
    /\ timerState.isActive \/ timers.issued < MaxHandles
    /\ FocusOnly(toggleTimer(Focus), "toggleTimer", 0)

\* a click on timer-reset-btn
ResetTimer == FocusOnly(resetTimer(Focus), "resetTimer", 0)

\* a click on timer-finish-btn, which takes clicks while it is enabled
FinishClick(confirmed) ==
    /\ timers.finishEnabled
    /\ FinishTimer("finishTimer", confirmed)

\* a live interval fires: one second less, or finishTimer at zero
Tick(h, confirmed) ==
    /\ h \in timers.live
    /\ IF timerState.timeLeft > 0
       THEN /\ ~confirmed
            /\ FocusOnly([Focus EXCEPT !.timerState.timeLeft = @ - 1], "tick", h)
       ELSE FinishTimer("tickFinish", confirmed)

\* the timeout finishTimer set fires
RestoreDisplay ==
    /\ timers.timeouts > 0
    /\ FocusOnly([Focus EXCEPT !.timerState.timeLeft = timerState.totalTime,
                               !.timers.timeouts = @ - 1], "restoreDisplay", 0)

\* the lengths on the timer-preset buttons
TimerPresets == {FocusSeconds - 1, FocusSeconds}

\* a click on a timer-preset button
SelectPreset(seconds) ==
    FocusOnly(setTimerDuration(Focus, seconds), "setTimerDuration", seconds)

\* the focus button of a task card
OpenFocusMode(taskId) ==
    FocusOnly(openFocusMode(Focus, store, taskId), "openFocusMode", taskId)

\* one daily task is on the timeline; the finish button starts enabled or not
InitTimer ==
    /\ now = StartDay * MinutesPerDay
    /\ tz = 0
    /\ generateIdDefined = FALSE
    /\ secureContext = TRUE
    /\ store = [DefaultStore(ToISODate(now)) EXCEPT
                   !.tasks = <<MakeTask(1, <<<<9, 0>>, <<10, 0>>>>, "daily", FALSE)>>]
    /\ saved = store
    /\ nextId = 2
    /\ InitHistories
    /\ \E enabled \in BOOLEAN : InitFocus(enabled)

NextTimer ==
    \/ ToggleTimer
    \/ ResetTimer
    \/ \E confirmed \in BOOLEAN : FinishClick(confirmed)
    \/ \E h \in 1..MaxHandles, confirmed \in BOOLEAN : Tick(h, confirmed)
    \/ RestoreDisplay
    \/ \E seconds \in TimerPresets : SelectPreset(seconds)
    \/ \E taskId \in 1..MaxTasks : OpenFocusMode(taskId)

SpecTimer == InitTimer /\ [][NextTimer]_vars

\* ------------------------------------------------------------- claims
\* the single call a direct updatePoints step made
TheCall == lastOp.calls[1]

IsUpdatePoints == lastOp.op = "updatePoints"

\* C1: after any sequence of updatePoints calls store.user.points is >= 0,
\* and a penalty larger than the balance it finds leaves points at exactly 0.
C1_PointsFloor ==
    /\ store.points >= 0
    /\ (IsUpdatePoints /\ TheCall.amount < 0 /\ TheCall.before + TheCall.amount < 0)
          => store.points = 0

\* a penalty larger than a positive balance has just been applied
C1_Witness ==
    /\ IsUpdatePoints
    /\ TheCall.amount < 0
    /\ TheCall.before > 0
    /\ TheCall.before + TheCall.amount < 0

\* C2 (as claimed): the task-sourced amounts applied within one day never
\* sum to more than DAILY_LIMIT; the award that would cross it is rejected.
C2_DailyCapNeverExceeded == taskApplied.sum <= DAILY_LIMIT

\* C3: a positive task-sourced call made when dailyPoints.date is today and
\* dailyPoints.count >= DAILY_LIMIT is rejected and changes nothing: points,
\* dailyPoints, totalPointsEarned and saplings keep their values.
C3_RejectedNoChange ==
    [][(/\ lastOp'.op = "updatePoints"
        /\ lastOp'.calls[1].amount > 0
        /\ lastOp'.calls[1].source = "task"
        /\ store.dailyPoints.date = ToISODate(now)
        /\ store.dailyPoints.count >= DAILY_LIMIT)
       => (/\ lastOp'.calls[1].result = "rejected"
           /\ store' = store
           /\ saved' = saved
           /\ pending' = pending)]_vars

\* a task-sourced award has just been rejected on a day whose count had
\* reached the limit
C3_Witness ==
    /\ IsUpdatePoints
    /\ TheCall.result = "rejected"
    /\ TheCall.source = "task"
    /\ store.dailyPoints.date = ToISODate(now)
    /\ store.dailyPoints.count >= DAILY_LIMIT
    /\ store.points > 0

\* an updatePoints call that had saplings to mint has just ended
MintingCallEnded ==
    \/ lastOp.op = "mintDone"
    \/ IsUpdatePoints /\ TheCall.result = "threw"

\* C5 (as claimed): a call that leaves floor(points/1000) above
\* saplings.length mints the difference: once it completes, saplings.length
\* = floor(points/1000), the state is saved, and the k-th sapling has id k
\* zero-padded to four digits and claimed = false.
C5_MintsTheDifference ==
    MintingCallEnded =>
        /\ Len(store.saplings) = store.points \div SAPLING_EVERY
        /\ saved = store
        /\ \A k \in 1..Len(store.saplings) :
              /\ store.saplings[k].id = SaplingId(k)
              /\ store.saplings[k].claimed = FALSE

TaskOf(s, id) == s.tasks[FindTask(s, id)]

\* C4 (as claimed): flipping a task to completed through toggleTask awards
\* +10 as a task-sourced award; flipping it back deducts 10.
C4_ToggleAwards ==
    (lastOp.op = "toggleTask" /\ FindTask(store, lastOp.arg) # 0) =>
        /\ Len(lastOp.calls) = 1
        /\ IF TaskOf(store, lastOp.arg).completed
           THEN lastOp.calls[1].amount = 10 /\ lastOp.calls[1].source = "task"
           ELSE lastOp.calls[1].amount = 0 - 10

\* C9 (as claimed): the timeline (selected date) and the current/next and
\* notification evaluation (today) treat a task as occurring on a date iff
\* its recurrence rule holds on that calendar date, and the weekday index
\* they test is the weekday of the date string they test.
C9_RecurrenceOnSameDay ==
    \A k \in 1..Len(store.tasks) :
        LET t == store.tasks[k]
            sel == store.selectedDate
            today == ToISODate(now)
        IN  /\ TimelineFilter(t, sel) <=> OccursOn(t, sel)
            /\ RuleHolds(t, today, GetDay(now)) <=> OccursOn(t, today)
            /\ t.recurrence = "weekdays" =>
                  /\ SelectedDay(sel) = WeekdayOfDate(sel)
                  /\ GetDay(now) = WeekdayOfDate(today)

\* the dates and instants the resolvers are probed on
ProbeDates == (StartDay - 1)..(MaxDay + 1)

ProbeLocalMinutes == {0, 535, 540, 720}

ProbeInstants ==
    {d * MinutesPerDay + ((m - tz) % MinutesPerDay) : d \in ProbeDates, m \in ProbeLocalMinutes}

\* C10: after a delete-one-occurrence of a recurring task T on the selected
\* date D, no resolver (timeline clusters, current/next, notifications)
\* yields T on D, and on every other date each resolver yields T exactly
\* when it did before the deletion.
C10_DeleteOneOccurrence ==
    [][lastOp'.op = "confirmDeleteOne" =>
        /\ FindTask(store', lastOp'.arg) # 0
        /\ \A D \in {store.selectedDate}, T \in {TaskOf(store, lastOp'.arg)},
              T2 \in {TaskOf(store', lastOp'.arg)} :
              /\ ~TimelineOccurrence(T2, D)
              /\ \A i \in ProbeInstants :
                    IF ToISODate(i) = D
                    THEN ~TodayFilter(T2, i) /\ ~NotifyFilter(T2, i)
                    ELSE /\ TodayFilter(T2, i) = TodayFilter(T, i)
                         /\ NotifyFilter(T2, i) = NotifyFilter(T, i)
              /\ \A d \in ProbeDates \ {D} :
                    TimelineOccurrence(T2, d) = TimelineOccurrence(T, d)]_vars

\* one occurrence of a recurring task has just been deleted on a selected
\* date that is not today: the rule includes the date, the task is
\* suppressed there, and it still occurs, and notifies, on another date
C10_Witness ==
    /\ lastOp.op = "confirmDeleteOne"
    /\ FindTask(store, lastOp.arg) # 0
    /\ store.selectedDate # ToISODate(now)
    /\ LET T == TaskOf(store, lastOp.arg)
       IN  /\ TimelineFilter(T, store.selectedDate)
           /\ IsDeletedOn(T, store.selectedDate)
           /\ \E d \in ProbeDates : TimelineOccurrence(T, d)
           /\ \E i \in ProbeInstants : TodayFilter(T, i) /\ NotifyFilter(T, i)

\* C7 (as claimed): within one day the hydration-goal award is granted at
\* most once, whatever the sequence of increments and decrements.
C7_GoalAwardOncePerDay == goalAwards.n <= 1

\* C8 (as claimed): the wake-up bounty is awarded at most once per calendar
\* day of the device, and only on a call made within [wakeTime, wakeTime+60].
C8_BountyOncePerDay ==
    /\ bountyAwards.n <= 1
    /\ (lastOp.op = "checkWakeUpBounty" /\ lastOp.arg > 0) =>
          (DiffMins(store) >= 0 /\ DiffMins(store) <= BOUNTY_WINDOW)

RECURSIVE Flatten(_)
\* the tasks of the clusters, in the order the timeline shows them
Flatten(cs) == IF cs = <<>> THEN <<>> ELSE Head(cs) \o Flatten(Tail(cs))

\* the largest endTime among the first n tasks of a cluster
LargestEnd(cluster, n) ==
    CHOOSE e \in {cluster[i].endTime : i \in 1..n} :
        \A i \in 1..n : TimeLeq(cluster[i].endTime, e)

\* C11: the clusters of the selected date hold every task that passes the
\* recurrence and exception filters exactly once, in ascending startTime
\* order with ties in store order; a task is in the cluster of the task
\* before it iff its startTime is strictly less than the largest endTime
\* the cluster has so far.
C11_Clusters ==
    lastOp.op = "renderUI" =>
        \A cs \in {out.clusters}, flat \in {Flatten(out.clusters)}, sel \in {store.selectedDate} :
            LET occ == {k \in 1..Len(store.tasks) :
                           /\ RuleHolds(store.tasks[k], sel, SelectedDay(sel))
                           /\ ~IsDeletedOn(store.tasks[k], sel)}
            IN  /\ Len(flat) = Cardinality(occ)
                /\ {flat[i].id : i \in 1..Len(flat)} = {store.tasks[k].id : k \in occ}
                /\ \A i, j \in 1..Len(flat) : i < j =>
                      \/ TimeLess(flat[i].startTime, flat[j].startTime)
                      \/ /\ flat[i].startTime = flat[j].startTime
                         /\ FindTask(store, flat[i].id) < FindTask(store, flat[j].id)
                /\ \A c \in 1..Len(cs) :
                      /\ Len(cs[c]) > 0
                      /\ \A k \in 2..Len(cs[c]) :
                            TimeLess(cs[c][k].startTime, LargestEnd(cs[c], k - 1))
                /\ \A c \in 2..Len(cs) :
                      ~TimeLess(cs[c][1].startTime, LargestEnd(cs[c - 1], Len(cs[c - 1])))

\* three tasks stored out of start order, one of them filtered out, came
\* out as a cluster whose second task starts before the first one ends
C11_Witness ==
    /\ lastOp.op = "renderUI"
    /\ Len(store.tasks) = 3
    /\ Len(out.clusters) = 1
    /\ Len(out.clusters[1]) = 2
    /\ out.clusters[1][1].id > out.clusters[1][2].id
    /\ \E k \in 1..3 : IsDeletedOn(store.tasks[k], store.selectedDate)

\* a task that starts after the end of the task before it stayed in the
\* cluster because an earlier task of the cluster ends later, and the task
\* starting at that end opened a new cluster
C11_WitnessLargestEnd ==
    /\ lastOp.op = "renderUI"
    /\ Len(out.clusters) = 1
    /\ Len(out.clusters[1]) = 3
    /\ ~TimeLess(out.clusters[1][3].startTime, out.clusters[1][2].endTime)

\* the tasks updateCurrentTask resolves for today, as indices of store.tasks
Today == {k \in 1..Len(store.tasks) : TodayFilter(store.tasks[k], now)}

\* those whose [startTime, endTime] holds the current HH:MM, bounds included
Containing ==
    {k \in Today : /\ TimeLeq(store.tasks[k].startTime, CurrentTime(now))
                   /\ TimeLeq(CurrentTime(now), store.tasks[k].endTime)}

\* those that start later than the current HH:MM
Later == {k \in Today : TimeLess(CurrentTime(now), store.tasks[k].startTime)}

\* the task of today that is last in startTime order, ties in store order
LastToday ==
    CHOOSE k \in Today : \A j \in Today \ {k} :
        \/ TimeLess(store.tasks[j].startTime, store.tasks[k].startTime)
        \/ store.tasks[j].startTime = store.tasks[k].startTime /\ j < k

StatusShown == lastOp.op = "updateCurrentTask"

\* C12: if some occurrence of today has startTime <= now <= endTime the
\* status is CURRENT and names one of them that starts earliest, completed
\* or not; if none has, the status is not CURRENT.
C12_Current ==
    StatusShown =>
        IF Containing # {}
        THEN /\ out.status = "CURRENT"
             /\ \E k \in Containing :
                   /\ store.tasks[k].id = out.id
                   /\ \A j \in Containing :
                         ~TimeLess(store.tasks[j].startTime, store.tasks[k].startTime)
        ELSE out.status # "CURRENT"

\* CURRENT names a completed task at the very minute it ends, while a task
\* stored before it, which starts later, also holds the current time
C12_Witness ==
    /\ StatusShown
    /\ out.status = "CURRENT"
    /\ \E k \in Containing :
          /\ store.tasks[k].id = out.id
          /\ store.tasks[k].completed
          /\ store.tasks[k].endTime = CurrentTime(now)
          /\ \E j \in Containing : j < k /\ TimeLess(store.tasks[k].startTime, store.tasks[j].startTime)

\* C13: when today has occurrences, none holds the current time and all are
\* completed, the status is DAY_COMPLETE, also when one of them starts later.
C13_DayComplete ==
    (/\ StatusShown
     /\ Today # {}
     /\ Containing = {}
     /\ \A k \in Today : store.tasks[k].completed) => out.status = "DAY_COMPLETE"

\* DAY_COMPLETE is shown while a completed task still starts later today
C13_Witness ==
    /\ StatusShown
    /\ out.status = "DAY_COMPLETE"
    /\ Containing = {}
    /\ Later # {}
    /\ Cardinality(Today) >= 2

\* C14: when no occurrence holds the current time and some occurrence of
\* today is not completed, the status is NEXT iff some occurrence starts
\* after now, and it names one with the smallest such startTime.
C14_Next ==
    (/\ StatusShown
     /\ Containing = {}
     /\ \E k \in Today : ~store.tasks[k].completed) =>
        /\ out.status = "NEXT" <=> Later # {}
        /\ out.status = "NEXT" =>
              \E k \in Later :
                  /\ store.tasks[k].id = out.id
                  /\ \A j \in Later :
                        ~TimeLess(store.tasks[j].startTime, store.tasks[k].startTime)

\* NEXT names the earlier of two tasks that start later, though it is
\* stored behind the other and is itself completed
C14_Witness ==
    /\ StatusShown
    /\ out.status = "NEXT"
    /\ \E k \in Later :
          /\ store.tasks[k].id = out.id
          /\ store.tasks[k].completed
          /\ \E j \in Later : j < k /\ TimeLess(store.tasks[k].startTime, store.tasks[j].startTime)

\* C15: the status is DAY_ENDED iff today has an occurrence, none holds the
\* current time, none starts after it, the current time is past the endTime
\* of the last occurrence, and some occurrence is not completed.
C15_DayEnded ==
    StatusShown =>
        (out.status = "DAY_ENDED" <=>
            /\ Today # {}
            /\ Containing = {}
            /\ Later = {}
            /\ TimeLess(store.tasks[LastToday].endTime, CurrentTime(now))
            /\ \E k \in Today : ~store.tasks[k].completed)

\* DAY_ENDED is shown with one task completed and another not
C15_Witness ==
    /\ StatusShown
    /\ out.status = "DAY_ENDED"
    /\ \E k \in Today : store.tasks[k].completed
    /\ \E k \in Today : ~store.tasks[k].completed

Ticked == lastOp.op = "checkNotifications"

\* how many times a notification is among those the tick fired
Fired(notice) == Cardinality({j \in 1..Len(out.fired) : out.fired[j] = notice})

\* the task occurs today: its rule holds and today is not in deletedDates
OccursToday(t) ==
    RuleHolds(t, ToISODate(now), GetDay(now)) /\ ~IsDeletedOn(t, ToISODate(now))

\* C16: in a tick with notifications enabled each task that occurs today
\* and starts at the current HH:MM gets one "Starting" notification, each
\* task that occurs today and starts in exactly 5 minutes gets one "Up Next"
\* notification, and no task gets any other notification.
C16_TaskNotifications ==
    (Ticked /\ store.notificationsEnabled) =>
        \A k \in 1..Len(store.tasks) : \A t \in {store.tasks[k]} :
            /\ Fired(Notice("Starting", t.id)) =
                  IF OccursToday(t) /\ t.startTime = CurrentTime(now) THEN 1 ELSE 0
            /\ Fired(Notice("Up Next", t.id)) =
                  IF OccursToday(t) /\ TimeToMinutes(t.startTime) - LocalMinutes(now) = 5
                  THEN 1 ELSE 0

\* one tick fired a "Starting" and an "Up Next" notification and none for a
\* task deleted today that starts now
C16_Witness ==
    /\ Ticked
    /\ \E k \in 1..Len(store.tasks) : Fired(Notice("Starting", store.tasks[k].id)) = 1
    /\ \E k \in 1..Len(store.tasks) : Fired(Notice("Up Next", store.tasks[k].id)) = 1
    /\ \E k \in 1..Len(store.tasks) :
          /\ IsDeletedOn(store.tasks[k], ToISODate(now))
          /\ store.tasks[k].startTime = CurrentTime(now)

\* C17 (as claimed): in a tick with notifications enabled at the HH:MM that
\* is sleepTime minus 30 minutes the wind-down reminder fires, whatever the
\* water settings, the hydration count and the tasks.
C17_WindDownIndependent ==
    (/\ Ticked
     /\ store.notificationsEnabled
     /\ store.sleepTime # NoTime
     /\ CurrentTime(now) = RemindTime(store.sleepTime)) =>
        Fired(Notice("Wind Down Time", NoId)) = 1

\* C18: the hydration nag fires in a tick iff notifications are enabled,
\* water.reminders is set, the minute is 0, more than 60 minutes have passed
\* since lastDrink, the hour is in [9, 21] and today's count is below the
\* goal; so within a clock hour only the tick of minute 0 fires it.
C18_HydrationNag ==
    Ticked =>
        /\ Fired(Notice("Time to Hydrate", NoId)) <= 1
        /\ Fired(Notice("Time to Hydrate", NoId)) = 1 <=>
              /\ store.notificationsEnabled
              /\ store.waterReminders
              /\ LocalMinutes(now) % 60 = 0
              /\ now - store.lastDrink > 60
              /\ LocalMinutes(now) \div 60 >= 9
              /\ LocalMinutes(now) \div 60 <= 21
              /\ HydrationOf(store, ToISODate(now)) < store.waterGoal

\* the nag fired at 09:00, the first active hour, next to a task notification
C18_Witness ==
    /\ Ticked
    /\ Fired(Notice("Time to Hydrate", NoId)) = 1
    /\ LocalMinutes(now) = 540
    /\ Len(out.fired) >= 2

C20_FailedImportKeepsState ==
    [][(lastOp'.op = "import" /\ out'.toast = "error") =>
          (store' = store /\ saved' = saved)]_vars

C22_SavedWhenQuiescent == pending = <<>> => saved = store

\* a step that resumed a suspended award call
MintResumed == lastOp'.op \in {"mintDone", "mintNext"}

C24_OneCountdown ==
    /\ Cardinality(timers.live) <= 1
    /\ (timers.live # {}) <=> timerState.isActive
    /\ timers.live \subseteq {timerInterval}
    /\ lastOp.op \in {"resetTimer", "finishTimer", "tickFinish"} => timers.live = {}

\* the countdown was started, paused and started again: the second
\* interval is the only one live
C24_Witness ==
    /\ lastOp.op = "toggleTimer"
    /\ timers.issued >= 2
    /\ timerState.isActive
    /\ timers.live = {timerInterval}

\* a running countdown was finished and no interval is left
C24_WitnessFinished ==
    /\ lastOp.op \in {"finishTimer", "tickFinish"}
    /\ timers.issued >= 1
    /\ timers.live = {}

\* C25: totalPointsEarned never decreases; an updatePoints call adds its
\* amount when it is positive and not rejected, and nothing otherwise; no
\* other step of the rewards engine changes it.
C25_TotalEarnedMonotonic ==
    [][/\ store'.totalPointsEarned >= store.totalPointsEarned
       /\ lastOp'.op = "updatePoints" =>
             store'.totalPointsEarned = store.totalPointsEarned
                + (IF lastOp'.calls[1].amount > 0 /\ lastOp'.calls[1].result # "rejected"
                   THEN lastOp'.calls[1].amount ELSE 0)
       /\ lastOp'.op # "updatePoints" =>
             store'.totalPointsEarned = store.totalPointsEarned]_vars

\* a penalty or a rejected award has just left a positive total alone
C25_Witness ==
    /\ IsUpdatePoints
    /\ TheCall.amount < 0 \/ TheCall.result = "rejected"
    /\ store.totalPointsEarned > 0
    /\ store.points < store.totalPointsEarned

\* today's dailyPoints.count as an updatePoints call finds it after its
\* daily reset
CountToday ==
    IF store.dailyPoints.date = ToISODate(now) THEN store.dailyPoints.count ELSE 0

\* C26: a positive award whose source is not 'task' is never rejected and
\* is applied in full to points, dailyPoints.count and totalPointsEarned,
\* whatever dailyPoints.count is.
C26_OtherSourcesUncapped ==
    [][(/\ lastOp'.op = "updatePoints"
        /\ lastOp'.calls[1].amount > 0
        /\ lastOp'.calls[1].source # "task")
       => (/\ lastOp'.calls[1].result # "rejected"
           /\ store'.points = store.points + lastOp'.calls[1].amount
           /\ store'.dailyPoints = [date |-> ToISODate(now),
                                    count |-> CountToday + lastOp'.calls[1].amount]
           /\ store'.totalPointsEarned =
                 store.totalPointsEarned + lastOp'.calls[1].amount)]_vars

\* a generic award was applied on top of a daily count already at the cap
C26_Witness ==
    /\ IsUpdatePoints
    /\ TheCall.amount > 0
    /\ TheCall.source = "generic"
    /\ TheCall.result # "rejected"
    /\ store.dailyPoints.count - TheCall.amount >= DAILY_LIMIT

\* no task of the store has the id
NoTaskHas(id) == \A k \in 1..Len(store.tasks) : store.tasks[k].id # id

\* C27: toggleTask and confirmDelete called with an id no task has change
\* neither the store nor the persisted blob, make no award call and raise
\* nothing; confirmDelete clears pendingDeleteId all the same.
C27_MissingIdNoOp ==
    [][/\ (lastOp'.op = "toggleTask" /\ NoTaskHas(lastOp'.arg)) =>
             (/\ store' = store /\ saved' = saved /\ pending' = pending
              /\ lastOp'.calls = <<>>
              /\ pendingDeleteId' = pendingDeleteId)
       /\ (/\ lastOp'.op \in {"confirmDeleteMissing", "confirmDeleteAll", "confirmDeleteOne"}
           /\ NoTaskHas(pendingDeleteId)) =>
             (/\ store' = store /\ saved' = saved /\ pending' = pending
              /\ lastOp'.calls = <<>>
              /\ pendingDeleteId' = NoId)]_vars

\* confirmDelete ran on an id that no task has while another task exists
C27_Witness ==
    /\ lastOp.op = "confirmDeleteMissing"
    /\ Len(store.tasks) > 0
    /\ NoTaskHas(lastOp.arg)
    /\ pendingDeleteId = NoId

\* toggleTask ran on an id that no task has while another task exists
C27_WitnessToggle ==
    /\ lastOp.op = "toggleTask"
    /\ Len(store.tasks) > 0
    /\ NoTaskHas(lastOp.arg)

\* loadStore has run on a document
Loaded == lastOp.op = "loadStore"

LoadedDocument == Loaded /\ saved.kind = "json"

\* the properties the migration of a task with no recurrence sets
MigratedFields == {"recurrence", "days", "date", "deletedDates"}

\* C28: after loadStore every persisted task with no recurrence is daily on
\* all seven weekdays with date null and deletedDates empty, and keeps its
\* other properties; every other persisted task keeps all its properties
\* and has a deletedDates list.
C28_TaskMigration ==
    (LoadedDocument /\ "tasks" \in DOMAIN saved.value) =>
        /\ Len(store.tasks) = Len(saved.value.tasks)
        /\ \A k \in 1..Len(store.tasks) :
              \A p \in {saved.value.tasks[k]}, t \in {store.tasks[k]} :
                 IF "recurrence" \notin DOMAIN p
                 THEN /\ t.recurrence = "daily"
                      /\ t.days = 0..6
                      /\ t.date = NoDate
                      /\ t.deletedDates = <<>>
                      /\ DOMAIN t = DOMAIN p \cup MigratedFields
                      /\ \A f \in DOMAIN p \ MigratedFields : t[f] = p[f]
                 ELSE /\ DOMAIN t = DOMAIN p \cup {"deletedDates"}
                      /\ \A f \in DOMAIN p : t[f] = p[f]

\* a document with a legacy task that had deletedDates, next to a task
\* that keeps its own, has been loaded
C28_Witness ==
    /\ LoadedDocument
    /\ "tasks" \in DOMAIN saved.value
    /\ Len(store.tasks) = 2
    /\ "recurrence" \notin DOMAIN saved.value.tasks[1]
    /\ "deletedDates" \in DOMAIN saved.value.tasks[1]
    /\ store.tasks[2].deletedDates = <<StartDay>>

\* every property of the defaults is in the merged object, and every
\* property persisted outside `nested` has its persisted value
MergedOver(merged, defaults, persisted, nested) ==
    /\ DOMAIN defaults \subseteq DOMAIN merged
    /\ \A f \in DOMAIN persisted \ nested : merged[f] = persisted[f]

\* C29: loadStore returns the default state for an absent or unparsable
\* blob; for a document, user, user.water, user.settings,
\* user.settings.meals and rewards have every default property, and every
\* persisted property has its persisted value.
C29_LoadMergesDefaults ==
    Loaded =>
       IF saved.kind # "json" THEN store = DEFAULT_STATE
       ELSE \A D \in {DEFAULT_STATE}, user \in {Sub(saved.value, "user")} :
              /\ DOMAIN D \subseteq DOMAIN store
              /\ MergedOver(store.user, D.user, user, {"water", "settings"})
              /\ MergedOver(store.user.water, D.user.water, Sub(user, "water"), {})
              /\ MergedOver(store.user.settings, D.user.settings,
                            Sub(user, "settings"), {"meals"})
              /\ MergedOver(store.user.settings.meals, D.user.settings.meals,
                            Sub(Sub(user, "settings"), "meals"), {})
              /\ MergedOver(store.rewards, D.rewards, Sub(saved.value, "rewards"), {})

\* a document with some user properties, one meal and no rewards was
\* loaded: persisted and default values stand side by side
C29_Witness ==
    /\ LoadedDocument
    /\ "rewards" \notin DOMAIN saved.value
    /\ store.user.points = 40
    /\ store.user.settings.darkMode
    /\ store.user.settings.meals.lunch = <<12, 0>>
    /\ store.user.settings.meals.dinner = <<20, 0>>
    /\ store.user.water.goal = DEFAULT_GOAL
    /\ store.rewards.totalPointsEarned = 0

\* nothing was persisted and the default state was loaded
C29_WitnessAbsent == Loaded /\ saved.kind = "absent" /\ store = DEFAULT_STATE

C31_DailyCount ==
    [][/\ lastOp'.op = "updatePoints" =>
             /\ lastOp'.calls[1].result # "rejected" =>
                   store'.dailyPoints =
                      [date |-> ToISODate(now),
                       count |-> CountToday + Earned(lastOp'.calls[1].amount)]
             /\ lastOp'.calls[1].result = "rejected" =>
                   /\ store.dailyPoints.date = ToISODate(now)
                   /\ store'.dailyPoints = store.dailyPoints
       /\ lastOp'.op # "updatePoints" => store'.dailyPoints = store.dailyPoints]_vars

\* a task award was applied as the first award of a day that follows a
\* day on which the cap was reached
C31_Witness ==
    /\ IsUpdatePoints
    /\ TheCall.source = "task"
    /\ TheCall.amount > 0
    /\ TheCall.result # "rejected"
    /\ store.dailyPoints = [date |-> ToISODate(now), count |-> TheCall.amount]
    /\ store.totalPointsEarned - TheCall.amount >= DAILY_LIMIT

WithoutPosition(tasks, k) == SubSeq(tasks, 1, k - 1) \o SubSeq(tasks, k + 1, Len(tasks))

\* C33: confirmDelete on an existing pending task removes exactly that task
\* when its recurrence is 'none' or the scope is 'all', every other task
\* unchanged; otherwise the task stays with every field unchanged but
\* deletedDates, which gains the selected date, and no other task changes.
C33_DeleteFrame ==
    [][\A scope \in DeleteScopes, k \in {FindTask(store, pendingDeleteId)} :
          (ConfirmDelete(scope) /\ k # 0) =>
             IF store.tasks[k].recurrence = "none" \/ scope = "all"
             THEN /\ store'.tasks = WithoutPosition(store.tasks, k)
                  /\ NoTaskHas(pendingDeleteId)'
             ELSE /\ Len(store'.tasks) = Len(store.tasks)
                  /\ \A j \in 1..Len(store.tasks) : j # k => store'.tasks[j] = store.tasks[j]
                  /\ store'.tasks[k] =
                        [store.tasks[k] EXCEPT !.hasDeletedDates = TRUE,
                                               !.deletedDates = Append(@, store.selectedDate)]]_vars

\* one occurrence of a recurring task has just been deleted, its first, from
\* a store that holds another task besides
C33_Witness ==
    /\ lastOp.op = "confirmDeleteOne"
    /\ Len(store.tasks) >= 2
    /\ FindTask(store, lastOp.arg) # 0
    /\ TaskOf(store, lastOp.arg).deletedDates = <<store.selectedDate>>
    /\ \E j \in 1..Len(store.tasks) : store.tasks[j].id # lastOp.arg

\* C34 (as claimed): on load the legacy counter user.water.current is
\* copied into hydrationLogs[today] exactly when user.water.date is today and
\* the persisted hydrationLogs has no entry for today; an entry persisted for
\* today keeps its value, whatever it is.
C34_LegacyCounterMigration ==
    LoadedDocument =>
       \A today \in {ToISODate(now)}, logs \in {Sub(saved.value, "hydrationLogs")},
          water \in {Sub(Sub(saved.value, "user"), "water")} :
          IF /\ "current" \in DOMAIN water
             /\ "date" \in DOMAIN water
             /\ water.date = today
             /\ today \notin DOMAIN logs
          THEN /\ DOMAIN store.hydrationLogs = DOMAIN logs \cup {today}
               /\ store.hydrationLogs[today] = water.current
               /\ \A d \in DOMAIN logs : store.hydrationLogs[d] = logs[d]
          ELSE store.hydrationLogs = logs

\* C35: when every occurrence of today has startTime <= endTime, the status
\* is IDLE exactly when today has no occurrence; with an occurrence it is one
\* of CURRENT, NEXT, DAY_COMPLETE and DAY_ENDED.
C35_IdleIffEmptyDay ==
    (/\ StatusShown
     /\ \A k \in Today : TimeLeq(store.tasks[k].startTime, store.tasks[k].endTime)) =>
        /\ out.status = "IDLE" <=> Today = {}
        /\ Today # {} => out.status \in {"CURRENT", "NEXT", "DAY_COMPLETE", "DAY_ENDED"}

\* the status is IDLE with tasks in the store, none of which occurs today
C35_Witness ==
    /\ StatusShown
    /\ out.status = "IDLE"
    /\ Len(store.tasks) >= 2
    /\ Today = {}

\* C36 (as claimed): the interval callback grants the focus award only when
\* the countdown has run from totalTime down to 0 since timeLeft was last
\* set; a start right after a finish, before the delayed reset of timeLeft,
\* gives no second award on its first tick.
C36_AwardAfterFullCountdown ==
    [][lastOp'.op = "tickFinish" => counted = timerState.totalTime]_vars

\* C37 (as claimed): when finishTimer runs with a linked task and the
\* confirm dialog is accepted, the linked task is completed afterwards,
\* whatever its completed flag was before.
C37_LinkedTaskCompleted ==
    [][(/\ FinishClick(TRUE) \/ \E h \in 1..MaxHandles : Tick(h, TRUE)
        /\ timerState.taskId # NoId
        /\ FindTask(store, timerState.taskId) # 0)
       => TaskOf(store', timerState.taskId).completed]_vars

\* a step of one of the two decrement handlers
DecrementStep ==
    \/ lastOp'.op = "waterRemoveClick"
    \/ lastOp'.op = "modifyWater" /\ lastOp'.arg = 0 - 1

\* C38: every hydrationLogs entry is an integer >= 0 in every reachable
\* state; a decrement requested when today's count is 0 or absent changes no
\* count and no points; modifyWater does nothing when the selected date is
\* not today.
C38_HydrationCounts ==
    [][/\ \A d \in DOMAIN store.hydrationLogs : store.hydrationLogs[d] \in Nat
       /\ \A d \in DOMAIN store'.hydrationLogs : store'.hydrationLogs[d] \in Nat
       /\ (DecrementStep /\ HydrationOf(store, ToISODate(now)) = 0) =>
             /\ \A d \in 0..MaxDay : HydrationOf(store', d) = HydrationOf(store, d)
             /\ store'.points = store.points
       /\ (lastOp'.op = "modifyWater" /\ store.selectedDate # ToISODate(now)) =>
             /\ store' = store
             /\ saved' = saved
             /\ pending' = pending]_vars

\* the minus button of the timeline widget has just been pressed on a day
\* with no entry, after cups were logged and points earned on an earlier day
C38_Witness ==
    /\ lastOp.op = "modifyWater"
    /\ lastOp.arg = 0 - 1
    /\ store.selectedDate = ToISODate(now)
    /\ HydrationOf(store, ToISODate(now)) = 0
    /\ ToISODate(now) \notin DOMAIN saved.hydrationLogs
    /\ \E d \in DOMAIN store.hydrationLogs : store.hydrationLogs[d] >= store.waterGoal
    /\ store.points > 0

\* the daily tasks of a title that occur today
MealsToday(title) ==
    {k \in 1..Len(store.tasks) :
        /\ store.tasks[k].title = title
        /\ store.tasks[k].recurrence = "daily"
        /\ ~IsDeletedOn(store.tasks[k], ToISODate(now))}

MealCalled == lastOp.op \in {"addMealSchedule", "addMealScheduleThrew"}

\* C39 (as claimed): on a store reached through task creation, deletion and
\* earlier addMealSchedule calls, addMealSchedule completes without error, a
\* second consecutive call adds no task, and no call leaves a second daily
\* task of a meal title that occurs today where there was at most one.
C39_MealScheduleIdempotent ==
    [][MealCalled' =>
          /\ lastOp'.op = "addMealSchedule"
          /\ MealCalled => store'.tasks = store.tasks
          /\ \A k \in 1..Len(Meals) :
                Cardinality(MealsToday(Meals[k].title)') <=
                   Max(1, Cardinality(MealsToday(Meals[k].title)))]_vars

====
